---- MODULE Spec2Model ----
(***************************************************************************)
(* Layered storage of the work journal: the IndexedDB layer, the           *)
(* file-system layer and the LayeredRepository that orchestrates them.     *)
(*                                                                         *)
(* Promises are modelled by their settlement: every layer operation yields *)
(* an outcome [ok |-> TRUE, val |-> v] (resolved) or                        *)
(* [ok |-> FALSE, err |-> e] (rejected).                                    *)
(***************************************************************************)
EXTENDS Integers, Sequences, FiniteSets, TLC

\* ------------------------------------------------------------------------
\* Bounds of the model
\* ------------------------------------------------------------------------
MaxWrites == 2
MaxTasks == 2
MaxResets == 1
MaxPending == 2
MaxInstances == 3
MaxLoads == 2

Years == {2024, 2025}
Weeks == {1, 2}

\* The keys the model stores under: two weeks of one year and a week of the next
Keys == {[year |-> 2024, week |-> 1], [year |-> 2024, week |-> 2],
         [year |-> 2025, week |-> 1]}

\* ------------------------------------------------------------------------
\* Record model
\* ------------------------------------------------------------------------
Undefined == "<undefined>"
Null == [null |-> TRUE]
Void == [void |-> TRUE]
\* a missing property of an object (the value `undefined` where a record is expected)
Missing == [undefined |-> TRUE]
\* an array of records, and a Set of week numbers, as results
List(seq) == [items |-> seq]
WeekSet(S) == [weeks |-> S]

WeekIdentifier == Keys

WeekId(y, w) == [year |-> y, week |-> w]

DEFAULT_WEEKLY_DATA_VALUES ==
    [statusIcon |-> "Unknown", achievements |-> "", challenges |-> ""]

Fields == {"statusIcon", "achievements", "challenges"}

\* Partial inputs a caller supplies: each optional field is either absent
\* (Undefined) or a string, the empty string included.
SaveWeeklyDataInput ==
    [weekId : WeekIdentifier,
     statusIcon : {Undefined, "Good"},
     achievements : {Undefined, "", "A"},
     challenges : {Undefined, "C"}]

\* a || b
NullishOr(a, b) == IF a \in {Undefined, ""} THEN b ELSE a

\* a ?? b

Nullish(a, b) == IF a = Undefined THEN b ELSE a

\* existing?.field
OptField(existing, f) == IF existing \in {Null, Missing} THEN Undefined ELSE existing[f]

toPlainWeekId(weekId) == [year |-> weekId.year, week |-> weekId.week]

\* The record both layers build in save(): input ?? existing ?? default.
MergeRecord(input, existing) ==
    [weekId |-> toPlainWeekId(input.weekId),
     statusIcon |-> Nullish(input.statusIcon,
                       Nullish(OptField(existing, "statusIcon"),
                               DEFAULT_WEEKLY_DATA_VALUES.statusIcon)),
     achievements |-> Nullish(input.achievements,
                       Nullish(OptField(existing, "achievements"),
                               DEFAULT_WEEKLY_DATA_VALUES.achievements)),
     challenges |-> Nullish(input.challenges,
                       Nullish(OptField(existing, "challenges"),
                               DEFAULT_WEEKLY_DATA_VALUES.challenges))]

Ok(v) == [ok |-> TRUE, val |-> v]
Fail(e) == [ok |-> FALSE, err |-> e]

\* ------------------------------------------------------------------------
\* Secondary operations started by fan-out (FileSystemLayer.save / delete)
\* ------------------------------------------------------------------------
RemoveAt(seq, i) == SubSeq(seq, 1, i - 1) \o SubSeq(seq, i + 1, Len(seq))

\* (year, week) lexicographic order of composite keys
KeyLeq(a, b) == a.year < b.year \/ (a.year = b.year /\ a.week <= b.week)

RECURSIVE SortByKey(_)
SortByKey(S) ==
    IF S = {} THEN <<>>
    ELSE LET m == CHOOSE r \in S : \A q \in S : KeyLeq(r.weekId, q.weekId)
         IN <<m>> \o SortByKey(S \ {m})

\* weeks.sort((a, b) => a.weekId.week - b.weekId.week)
RECURSIVE SortByWeek(_)
SortByWeek(S) ==
    IF S = {} THEN <<>>
    ELSE LET m == CHOOSE r \in S : \A q \in S : r.weekId.week <= q.weekId.week
         IN <<m>> \o SortByWeek(S \ {m})

\* ------------------------------------------------------------------------
\* IndexedDBLayer: an object store with key path [weekId.year, weekId.week]
\* ------------------------------------------------------------------------
\* store.put(record): replaces the record with the same composite key
StoreAdd(store, rec) ==
    IF \E r \in store : r.weekId = rec.weekId THEN store ELSE store \cup {rec}

StorePut(store, rec) == {r \in store : r.weekId # rec.weekId} \cup {rec}

\* store.get(compositeKey), then `result || null`
IndexedDBLayer_get(store, weekId) ==
    IF \E r \in store : r.weekId = toPlainWeekId(weekId)
    THEN Ok(CHOOSE r \in store : r.weekId = toPlainWeekId(weekId))
    ELSE Ok(Null)

IndexedDBLayer_save(store, input) ==
    LET existing == IndexedDBLayer_get(store, toPlainWeekId(input.weekId)).val
        dataToSave == MergeRecord(input, existing)
    IN [out |-> Ok(dataToSave), store |-> StorePut(store, dataToSave)]

IndexedDBLayer_delete(store, weekId) ==
    [out |-> Ok(Void), store |-> {r \in store : r.weekId # toPlainWeekId(weekId)}]

\* IDBKeyRange.bound(lower, upper) throws DataError when lower > upper
IndexedDBLayer_getRange(store, start, end) ==
    IF ~KeyLeq(start, end)
    THEN Fail([name |-> "DataError", layer |-> "indexeddb"])
    ELSE Ok(List(SortByKey({r \in store : KeyLeq(start, r.weekId) /\ KeyLeq(r.weekId, end)})))

IndexedDBLayer_getByYear(store, year) ==
    IndexedDBLayer_getRange(store, WeekId(year, 1), WeekId(year, 53))

IndexedDBLayer_getWeeksWithDataOfAllYears(store, year) ==
    Ok(WeekSet({r.weekId.week : r \in store}))

\* yearIndex.getAllKeys(year), then the week component of each primary key
IndexedDBLayer_getWeeksWithData(store, year) ==
    Ok(WeekSet({r.weekId.week : r \in {q \in store : q.weekId.year = year}}))

\* ------------------------------------------------------------------------
\* FileSystemLayer: a directory of year files work-journal-<year>.json
\* ------------------------------------------------------------------------
NoFile == [missing |-> TRUE]

getFileName(year) == "work-journal-" \o ToString(year) \o ".json"

FileNames == {getFileName(y) : y \in Years}

\* /^work-journal-(\d{4})\.json$/ ; a name that does not match yields null
parseFileName(fileName) ==
    IF \E y \in Years : getFileName(y) = fileName
    THEN CHOOSE y \in Years : getFileName(y) = fileName
    ELSE 0

\* property keys of the weeks object are strings
WeekKey(weekNumber) == ToString(weekNumber)

\* week numbers a caller may pass: save validates none, so a week outside
\* 1..53 is stored like any other
WeekNumbers == 0..54

parseInt(s) == CHOOSE n \in WeekNumbers : ToString(n) = s

EmptyDir == [n \in FileNames |-> NoFile]

EmptyWeeks == [k \in {} |-> Null]

NotFoundError == [name |-> "NotFoundError", layer |-> "filesystem"]

\* a year file whose text JSON.parse rejects (the file lies in a directory of
\* the user and can be written by anything), and the error JSON.parse throws
Malformed == [malformed |-> TRUE]

SyntaxError == [name |-> "SyntaxError", layer |-> "filesystem"]

\* getFileHandle(name) / getFile() / text() / JSON.parse; NotFoundError -> null.
\* The text written by writeYearFile is JSON.stringify of a structure of
\* numbers, strings and string-keyed objects, which JSON.parse gives back.
\* Any other error, that of JSON.parse included, is rethrown.
readYearFileCatchesAll(dir, year) ==
    IF dir[getFileName(year)] \in {NoFile, Malformed} THEN Ok(Null)
    ELSE Ok(dir[getFileName(year)])

readYearFile(dir, year) ==
    IF dir[getFileName(year)] = NoFile THEN Ok(Null)
    ELSE IF dir[getFileName(year)] = Malformed THEN Fail(SyntaxError)
    ELSE Ok(dir[getFileName(year)])

\* createWritable / write / close replaces the file content as a whole
writeYearFile(dir, year, data) ==
    [out |-> Ok(Void), dir |-> [dir EXCEPT ![getFileName(year)] = data]]

\* dirHandle.removeEntry(name): NotFoundError when the entry is missing
removeEntry(dir, fileName) ==
    IF dir[fileName] = NoFile THEN [out |-> Fail(NotFoundError), dir |-> dir]
    ELSE [out |-> Ok(Void), dir |-> [dir EXCEPT ![fileName] = NoFile]]

\* yearData.weeks[weekNumber]
WeekOf(yearData, weekNumber) ==
    IF WeekKey(weekNumber) \in DOMAIN yearData.weeks
    THEN yearData.weeks[WeekKey(weekNumber)] ELSE Missing

\* yearData.weeks[weekNumber] = data
SetWeek(yearData, weekNumber, data) ==
    [yearData EXCEPT !.weeks =
        [k \in (DOMAIN yearData.weeks) \cup {WeekKey(weekNumber)} |->
            IF k = WeekKey(weekNumber) THEN data ELSE yearData.weeks[k]]]

\* delete yearData.weeks[weekNumber]
DeleteWeek(yearData, weekNumber) ==
    [yearData EXCEPT !.weeks =
        [k \in (DOMAIN yearData.weeks) \ {WeekKey(weekNumber)} |-> yearData.weeks[k]]]

\* save(), up to the write: the year structure read or created, with the
\* merged record put under its week
FileSystemLayer_savePrepare(dir, input) ==
    LET identifier == toPlainWeekId(input.weekId)
        rd == readYearFile(dir, identifier.year)
        yearData == IF rd.val = Null
                    THEN [year |-> identifier.year, weeks |-> EmptyWeeks]
                    ELSE rd.val
        existing == WeekOf(yearData, identifier.week)
        dataToSave == MergeRecord(input, existing)
    IN IF ~rd.ok THEN [out |-> rd]
       ELSE [out |-> Ok(dataToSave),
             yearData |-> SetWeek(yearData, identifier.week, dataToSave)]

FileSystemLayer_save(dir, input) ==
    LET p == FileSystemLayer_savePrepare(dir, input)
    IN IF ~p.out.ok THEN [out |-> p.out, dir |-> dir]
       ELSE [out |-> p.out,
             dir |-> writeYearFile(dir, input.weekId.year, p.yearData).dir]

FileSystemLayer_get(dir, weekId) ==
    LET rd == readYearFile(dir, weekId.year)
    IN IF ~rd.ok THEN rd
       ELSE IF rd.val = Null THEN Ok(Null)
       ELSE IF WeekOf(rd.val, weekId.week) = Missing THEN Ok(Null)
       ELSE Ok(WeekOf(rd.val, weekId.week))

FileSystemLayer_deletePrepareKeepsFile(dir, weekId) ==
    LET rd == readYearFile(dir, weekId.year)
    IN IF ~rd.ok THEN [out |-> rd, todo |-> "none"]
       ELSE IF rd.val = Null THEN [out |-> Ok(Void), todo |-> "none"]
       ELSE [out |-> Ok(Void), todo |-> "write",
             yearData |-> DeleteWeek(rd.val, weekId.week)]

\* delete(), up to the write: what is to be done with the year file
FileSystemLayer_deletePrepare(dir, weekId) ==
    LET rd == readYearFile(dir, weekId.year)
    IN IF ~rd.ok THEN [out |-> rd, todo |-> "none"]
       ELSE IF rd.val = Null THEN [out |-> Ok(Void), todo |-> "none"]
       ELSE LET yearData == DeleteWeek(rd.val, weekId.week)
            IN IF DOMAIN yearData.weeks = {}
               THEN [out |-> Ok(Void), todo |-> "remove"]
               ELSE [out |-> Ok(Void), todo |-> "write", yearData |-> yearData]

\* delete(), the write: removeEntry (a NotFoundError counts as deleted) or
\* writeYearFile of the remaining weeks
FileSystemLayer_deleteCommit(dir, weekId, p) ==
    IF p.todo = "remove"
    THEN [out |-> Ok(Void), dir |-> removeEntry(dir, getFileName(weekId.year)).dir]
    ELSE IF p.todo = "write"
    THEN writeYearFile(dir, weekId.year, p.yearData)
    ELSE [out |-> p.out, dir |-> dir]

FileSystemLayer_delete(dir, weekId) ==
    FileSystemLayer_deleteCommit(dir, weekId, FileSystemLayer_deletePrepare(dir, weekId))

\* the records of one year file whose (file year, week key) lies in the range
InRangeOfFile(dir, year, start, end) ==
    LET rd == readYearFile(dir, year)
        yearData == rd.val
    IN IF ~rd.ok \/ yearData = Null THEN {}
       ELSE {yearData.weeks[k] : k \in
               {j \in DOMAIN yearData.weeks :
                   LET weekId == WeekId(year, parseInt(j))
                   IN KeyLeq(start, weekId) /\ KeyLeq(weekId, end)}}

FileSystemLayer_getRange(dir, start, end) ==
    LET entries == {n \in DOMAIN dir : dir[n] # NoFile}
        years == {parseFileName(n) : n \in entries}
        wanted == {y \in years : y # 0 /\ y >= start.year /\ y <= end.year}
    IN IF \E y \in wanted : ~readYearFile(dir, y).ok
       THEN readYearFile(dir, CHOOSE y \in wanted : ~readYearFile(dir, y).ok)
       ELSE Ok(List(SortByKey(UNION {InRangeOfFile(dir, y, start, end) : y \in wanted})))

FileSystemLayer_getByYear(dir, year) ==
    LET rd == readYearFile(dir, year)
    IN IF ~rd.ok THEN rd
       ELSE IF rd.val = Null THEN Ok(List(<<>>))
       ELSE Ok(List(SortByWeek({rd.val.weeks[k] : k \in DOMAIN rd.val.weeks})))

FileSystemLayer_getWeeksWithData(dir, year) ==
    LET rd == readYearFile(dir, year)
    IN IF ~rd.ok THEN rd
       ELSE IF rd.val = Null THEN Ok(WeekSet({}))
       ELSE Ok(WeekSet({parseInt(k) : k \in DOMAIN rd.val.weeks}))

\* ------------------------------------------------------------------------
\* State
\* ------------------------------------------------------------------------
VARIABLES
    idb,            \* the object store of the primary IndexedDBLayer
    dirs,           \* the directory of each secondary FileSystemLayer
    config,         \* LayeredRepositoryConfig
    call,           \* the repository call in progress or last completed
    tasks,          \* secondary-layer operations started by fan-out, unsettled
    nCalls,         \* number of repository save/delete calls issued
    lastWrite,      \* per key: outcome of the last repository save/delete
    primaryFailed,  \* whether an operation of the primary layer has rejected
    layerOp,        \* the last operation applied directly to a layer
    fsLayer,        \* a FileSystemLayer: directoryHandle, initPromise, its runs
    idbLayer,       \* an IndexedDBLayer: dbPromise and the databases it opened
    platform,       \* window.showDirectoryPicker and the directory's permission
    factory,        \* RepositoryFactory: instance, currentConfig
    hook            \* useWeeklyData: weekId, data, isLoading, error, loads

vars == <<idb, dirs, config, call, tasks, nCalls, lastWrite,
          primaryFailed, layerOp, fsLayer, idbLayer, platform, factory, hook>>

appVars == <<factory, hook>>

lifecycleVars == <<fsLayer, idbLayer, platform, appVars>>

Primary == "primary"
SecondaryIds == {"sec1", "sec2"}
Coordinator == "coordinator"

repoVars == <<config, call, tasks, nCalls, lastWrite, primaryFailed>>

\* ------------------------------------------------------------------------
\* Layers used directly, every operation awaited before the next is issued
\* ------------------------------------------------------------------------
LayerNames == {"indexeddb", "filesystem"}

LayerGet(layer, weekId) ==
    IF layer = "indexeddb" THEN IndexedDBLayer_get(idb, weekId)
    ELSE FileSystemLayer_get(dirs["sec1"], weekId)

\* what the layer held under the key before the operation, where it can be read
PriorOf(got) == IF got.ok THEN got.val ELSE Null

IndexedDBLayerSave(input) ==
    /\ layerOp.layer = "indexeddb"
    /\ LET r == IndexedDBLayer_save(idb, input)
       IN /\ idb' = r.store
          /\ layerOp' = [layer |-> "indexeddb", op |-> "save", arg |-> input,
                         prior |-> IndexedDBLayer_get(idb, input.weekId).val,
                         out |-> r.out]
    /\ UNCHANGED <<dirs, repoVars, lifecycleVars>>

FileSystemLayerSave(input) ==
    /\ layerOp.layer = "filesystem"
    /\ LET r == FileSystemLayer_save(dirs["sec1"], input)
       IN /\ dirs' = [dirs EXCEPT !["sec1"] = r.dir]
          /\ layerOp' = [layer |-> "filesystem", op |-> "save", arg |-> input,
                         prior |-> PriorOf(FileSystemLayer_get(dirs["sec1"], input.weekId)),
                         out |-> r.out]
    /\ UNCHANGED <<idb, repoVars, lifecycleVars>>

IndexedDBLayerGet(weekId) ==
    /\ layerOp.layer = "indexeddb"
    /\ layerOp' = [layer |-> "indexeddb", op |-> "get", arg |-> weekId,
                   prior |-> Null, out |-> IndexedDBLayer_get(idb, weekId)]
    /\ UNCHANGED <<idb, dirs, repoVars, lifecycleVars>>

FileSystemLayerGet(weekId) ==
    /\ layerOp.layer = "filesystem"
    /\ layerOp' = [layer |-> "filesystem", op |-> "get", arg |-> weekId,
                   prior |-> Null, out |-> FileSystemLayer_get(dirs["sec1"], weekId)]
    /\ UNCHANGED <<idb, dirs, repoVars, lifecycleVars>>

IndexedDBLayerDelete(weekId) ==
    /\ layerOp.layer = "indexeddb"
    /\ LET r == IndexedDBLayer_delete(idb, weekId)
       IN /\ idb' = r.store
          /\ layerOp' = [layer |-> "indexeddb", op |-> "delete", arg |-> weekId,
                         prior |-> IndexedDBLayer_get(idb, weekId).val,
                         out |-> r.out]
    /\ UNCHANGED <<dirs, repoVars, lifecycleVars>>

FileSystemLayerDelete(weekId) ==
    /\ layerOp.layer = "filesystem"
    /\ LET r == FileSystemLayer_delete(dirs["sec1"], weekId)
       IN /\ dirs' = [dirs EXCEPT !["sec1"] = r.dir]
          /\ layerOp' = [layer |-> "filesystem", op |-> "delete", arg |-> weekId,
                         prior |-> PriorOf(FileSystemLayer_get(dirs["sec1"], weekId)),
                         out |-> r.out]
    /\ UNCHANGED <<idb, repoVars, lifecycleVars>>

Pending == [pending |-> TRUE]

NoCall == [op |-> "none", arg |-> Null, pc |-> "idle", out |-> Pending,
           next |-> 0, found |-> Null, waiting |-> 0, log |-> <<>>]

\* a FileSystemDirectoryHandle, named by where the layer got it from
Handle(origin) == [handle |-> origin]

\* new FileSystemLayer(directoryHandle?): directoryHandle ?? null, no
\* initPromise. inits are the runs of the async body of init(), ops the
\* operations awaiting one of them, resets the calls of reset() and
\* setDirectoryHandle() so far.
NewFileSystemLayer(directoryHandle) ==
    [directoryHandle |-> directoryHandle, initPromise |-> 0, inits |-> <<>>,
     ops |-> <<>>, resets |-> 0]

\* new IndexedDBLayer(): no dbPromise. opens are the promises made by
\* initDB(), ops the operations awaiting one of them, closing the calls of
\* close() awaiting one, closes the calls of close() that resolved.
NewIndexedDBLayer ==
    [dbPromise |-> 0, opens |-> <<>>, ops |-> <<>>, closing |-> <<>>,
     closes |-> 0]

\* PermissionState of the directory, and "error" when queryPermission rejects
Permissions == {"granted", "prompt", "denied", "error"}

\* the layers as the tests construct them, on a platform that has the API
\* the objects as the tests construct them, on a platform that has the API.
\* RepositoryFactory before configure(): instance and currentConfig are
\* null. created counts the calls of createRepository, each of which makes
\* a new repository; last is the last call of the factory and its result.
NewRepositoryFactory ==
    [instance |-> 0, currentConfig |-> Null, created |-> 0,
     last |-> [op |-> "none"]]

\* useWeeklyData(weekId) right after setup: the refs, and the immediate
\* watcher has called loadData() for weekId
NewUseWeeklyData(weekId) ==
    [weekId |-> weekId, data |-> Null, isLoading |-> TRUE, error |-> Null,
     loads |-> <<weekId>>]

LayersConstructed ==
    /\ fsLayer = NewFileSystemLayer(Handle("given"))
    /\ idbLayer = NewIndexedDBLayer
    /\ platform = [api |-> TRUE, permission |-> "granted"]
    /\ factory = NewRepositoryFactory
    /\ hook = NewUseWeeklyData(WeekId(2024, 1))

BaseInit ==
    /\ idb = {}
    /\ dirs = [l \in SecondaryIds |-> EmptyDir]
    /\ call = NoCall
    /\ tasks = <<>>
    /\ nCalls = 0
    /\ lastWrite = [k \in Keys |-> Null]
    /\ primaryFailed = FALSE

LayerInit ==
    /\ BaseInit
    /\ LayersConstructed
    /\ config = [syncWritesImmediately |-> FALSE, fallbackOnError |-> FALSE,
                 secondaryLayers |-> <<>>, syncCoordinator |-> FALSE]
    /\ \E l \in LayerNames :
          layerOp = [layer |-> l, op |-> "none", arg |-> Null, prior |-> Null,
                     out |-> Ok(Void)]

LayerNext ==
    \/ \E input \in SaveWeeklyDataInput : IndexedDBLayerSave(input)
    \/ \E input \in SaveWeeklyDataInput : FileSystemLayerSave(input)
    \/ \E weekId \in WeekIdentifier : IndexedDBLayerGet(weekId)
    \/ \E weekId \in WeekIdentifier : FileSystemLayerGet(weekId)
    \/ \E weekId \in WeekIdentifier : IndexedDBLayerDelete(weekId)
    \/ \E weekId \in WeekIdentifier : FileSystemLayerDelete(weekId)

LayerSpec == LayerInit /\ [][LayerNext]_vars

\* ------------------------------------------------------------------------
\* The queries of a layer used directly, over contents built by save and
\* delete
\* ------------------------------------------------------------------------
LayerRead(layer, op, arg, out) ==
    /\ layerOp.layer = layer
    /\ layerOp' = [layer |-> layer, op |-> op, arg |-> arg, prior |-> Null,
                   out |-> out]
    /\ UNCHANGED <<idb, dirs, repoVars, lifecycleVars>>

IndexedDBLayerGetRange(start, end) ==
    LayerRead("indexeddb", "getRange", [start |-> start, end |-> end],
              IndexedDBLayer_getRange(idb, start, end))

FileSystemLayerGetRange(start, end) ==
    LayerRead("filesystem", "getRange", [start |-> start, end |-> end],
              FileSystemLayer_getRange(dirs["sec1"], start, end))

IndexedDBLayerGetByYear(year) ==
    LayerRead("indexeddb", "getByYear", [year |-> year],
              IndexedDBLayer_getByYear(idb, year))

FileSystemLayerGetByYear(year) ==
    LayerRead("filesystem", "getByYear", [year |-> year],
              FileSystemLayer_getByYear(dirs["sec1"], year))

IndexedDBLayerGetWeeksWithData(year) ==
    LayerRead("indexeddb", "getWeeksWithData", [year |-> year],
              IndexedDBLayer_getWeeksWithData(idb, year))

FileSystemLayerGetWeeksWithData(year) ==
    LayerRead("filesystem", "getWeeksWithData", [year |-> year],
              FileSystemLayer_getWeeksWithData(dirs["sec1"], year))

\* keys of the queries: three weeks of one year, one of them outside 1..53,
\* and a week of the next year
QueryKeys == {WeekId(2024, 1), WeekId(2024, 2), WeekId(2024, 54), WeekId(2025, 1)}

QueryInputs ==
    [weekId : QueryKeys, statusIcon : {Undefined, "Good"},
     achievements : {Undefined}, challenges : {Undefined}]

QueryNext ==
    \/ \E input \in QueryInputs : IndexedDBLayerSave(input)
    \/ \E input \in QueryInputs : FileSystemLayerSave(input)
    \/ \E weekId \in QueryKeys : IndexedDBLayerDelete(weekId)
    \/ \E weekId \in QueryKeys : FileSystemLayerDelete(weekId)
    \/ \E weekId \in QueryKeys : IndexedDBLayerGet(weekId)
    \/ \E weekId \in QueryKeys : FileSystemLayerGet(weekId)
    \/ \E start, end \in QueryKeys : IndexedDBLayerGetRange(start, end)
    \/ \E start, end \in QueryKeys : FileSystemLayerGetRange(start, end)
    \/ \E year \in Years : IndexedDBLayerGetByYear(year)
    \/ \E year \in Years : FileSystemLayerGetByYear(year)
    \/ \E year \in Years : IndexedDBLayerGetWeeksWithData(year)
    \/ \E year \in Years : FileSystemLayerGetWeeksWithData(year)

QuerySpec == LayerInit /\ [][QueryNext]_vars

\* ------------------------------------------------------------------------
\* The file-system layer over a directory whose year files may hold text that
\* is not JSON
\* ------------------------------------------------------------------------
\* mockDirectory._setFileContent(name, 'invalid json {{{'): the file is
\* written from outside the layer
SetFileContent(fileName) ==
    /\ layerOp.layer = "filesystem"
    /\ dirs' = [dirs EXCEPT !["sec1"][fileName] = Malformed]
    /\ layerOp' = [layer |-> "filesystem", op |-> "setFileContent",
                   arg |-> [name |-> fileName], prior |-> Null, out |-> Ok(Void)]
    /\ UNCHANGED <<idb, repoVars, lifecycleVars>>

FileKeys == {WeekId(2024, 1), WeekId(2024, 2), WeekId(2025, 1)}

FileInputs ==
    [weekId : FileKeys, statusIcon : {Undefined, "Good"},
     achievements : {Undefined}, challenges : {Undefined}]

FileInit == LayerInit /\ layerOp.layer = "filesystem"

FileNext ==
    \/ \E fileName \in FileNames : SetFileContent(fileName)
    \/ \E input \in FileInputs : FileSystemLayerSave(input)
    \/ \E weekId \in FileKeys : FileSystemLayerDelete(weekId)
    \/ \E weekId \in FileKeys : FileSystemLayerGet(weekId)
    \/ \E start, end \in FileKeys : FileSystemLayerGetRange(start, end)
    \/ \E year \in Years : FileSystemLayerGetByYear(year)
    \/ \E year \in Years : FileSystemLayerGetWeeksWithData(year)

FileSpec == FileInit /\ [][FileNext]_vars

\* ------------------------------------------------------------------------
\* Lazy initialization of the layers. Every operation of FileSystemLayer
\* awaits init() through getDirectoryHandle(), every operation of
\* IndexedDBLayer awaits initDB(); what the operation does afterwards is
\* modelled above and left out here.
\* ------------------------------------------------------------------------
\* the Error object a run of init() or initDB() rejects with
InitError(message, run) == [name |-> "Error", message |-> message, run |-> run]

\* one run of the async body of init(): where it is suspended, the error it
\* rejected with, and how often it called loadDirectoryHandle and
\* showDirectoryPicker
InitRun(pc, epoch, loads) ==
    [pc |-> pc, err |-> Null, epoch |-> epoch, loads |-> loads, picks |-> 0]

Rejected(run, message, i) ==
    [run EXCEPT !.pc = "rejected", !.err = InitError(message, i)]

\* The continuation of an await on a settled promise is a microtask: it runs
\* before the event loop delivers the next result of the platform (a file
\* picker, a permission answer, an open request). Quiescent holds when no
\* operation and no close() has such a continuation outstanding.
HasSettled(run) == run.pc \in {"fulfilled", "rejected", "closed"}

Quiescent ==
    /\ \A k \in DOMAIN fsLayer.ops : ~HasSettled(fsLayer.inits[fsLayer.ops[k].init])
    /\ \A k \in DOMAIN idbLayer.ops : ~HasSettled(idbLayer.opens[idbLayer.ops[k].init])
    /\ \A k \in DOMAIN idbLayer.closing : ~HasSettled(idbLayer.opens[idbLayer.closing[k]])

MemoizedNever(promise, runs) == FALSE

MemoizedUntilRejected(promise, runs) ==
    promise # 0 /\ runs[promise].pc # "rejected"

\* if (this.initPromise) return this.initPromise
Memoized(promise, runs) == promise # 0

\* this.directoryHandle.queryPermission(...) / requestPermission(...) called
\* by run i: a TypeError when reset() has cleared the handle meanwhile
CallOnHandle(l, i, pc) ==
    IF l.directoryHandle = Null
    THEN [l EXCEPT !.inits[i] = Rejected(@, "TypeError: directoryHandle is null", i)]
    ELSE [l EXCEPT !.inits[i].pc = pc]

\* init(): the memoized promise, or a new run of the body up to its first
\* await (loadDirectoryHandle() without a handle, queryPermission() with one)
FileSystemLayer_init(l) ==
    IF Memoized(l.initPromise, l.inits) THEN l
    ELSE LET i == Len(l.inits) + 1
         IN [l EXCEPT !.initPromise = i,
                      !.inits = Append(@,
                          IF l.directoryHandle = Null
                          THEN InitRun("load", l.resets, 1)
                          ELSE InitRun("query", l.resets, 0))]

\* an operation calls getDirectoryHandle() and awaits init()
FileSystemLayerOperation ==
    /\ layerOp.layer = "filesystem"
    /\ Len(fsLayer.ops) < MaxPending
    /\ LET l == FileSystemLayer_init(fsLayer)
       IN /\ Len(l.inits) <= MaxResets + 2
          /\ fsLayer' = [l EXCEPT !.ops = Append(@, [init |-> l.initPromise,
                                                     epoch |-> l.resets])]
    /\ UNCHANGED <<idb, dirs, repoVars, appVars, layerOp, idbLayer, platform>>

\* await loadDirectoryHandle(): a persisted handle is taken and its
\* permission queried; without one showDirectoryPicker is called
LoadDirectoryHandleSettles(i, persistedHandle) ==
    /\ layerOp.layer = "filesystem"
    /\ i \in DOMAIN fsLayer.inits /\ fsLayer.inits[i].pc = "load"
    /\ Quiescent
    /\ fsLayer' =
          IF persistedHandle # Null
          THEN [fsLayer EXCEPT !.directoryHandle = persistedHandle,
                               !.inits[i].pc = "query"]
          ELSE [fsLayer EXCEPT !.inits[i].pc = "pick", !.inits[i].picks = @ + 1]
    /\ UNCHANGED <<idb, dirs, repoVars, appVars, layerOp, idbLayer, platform>>

\* await window.showDirectoryPicker(...): the picked handle is taken and
\* saveDirectoryHandle called; a rejection (also the TypeError of a platform
\* without the API) is rethrown as "Failed to get directory access"
ShowDirectoryPickerSettles(i, picked) ==
    /\ layerOp.layer = "filesystem"
    /\ i \in DOMAIN fsLayer.inits /\ fsLayer.inits[i].pc = "pick"
    /\ Quiescent
    /\ picked => platform.api
    /\ fsLayer' =
          IF picked
          THEN [fsLayer EXCEPT !.directoryHandle = Handle("picked"),
                               !.inits[i].pc = "persist"]
          ELSE [fsLayer EXCEPT !.inits[i] =
                   Rejected(@, "Failed to get directory access", i)]
    /\ UNCHANGED <<idb, dirs, repoVars, appVars, layerOp, idbLayer, platform>>

\* await saveDirectoryHandle(...), inside the same try block; then
\* queryPermission is called
SaveDirectoryHandleSettles(i, saved) ==
    /\ layerOp.layer = "filesystem"
    /\ i \in DOMAIN fsLayer.inits /\ fsLayer.inits[i].pc = "persist"
    /\ Quiescent
    /\ fsLayer' =
          IF saved THEN CallOnHandle(fsLayer, i, "query")
          ELSE [fsLayer EXCEPT !.inits[i] =
                   Rejected(@, "Failed to get directory access", i)]
    /\ UNCHANGED <<idb, dirs, repoVars, appVars, layerOp, idbLayer, platform>>

\* await queryPermission({mode: 'readwrite'}): granted ends the run,
\* anything else calls requestPermission
QueryPermissionSettles(i) ==
    /\ layerOp.layer = "filesystem"
    /\ i \in DOMAIN fsLayer.inits /\ fsLayer.inits[i].pc = "query"
    /\ Quiescent
    /\ fsLayer' =
          IF platform.permission = "error"
          THEN [fsLayer EXCEPT !.inits[i] =
                   Rejected(@, "queryPermission rejected", i)]
          ELSE IF platform.permission = "granted"
          THEN [fsLayer EXCEPT !.inits[i].pc = "fulfilled"]
          ELSE CallOnHandle(fsLayer, i, "request")
    /\ UNCHANGED <<idb, dirs, repoVars, appVars, layerOp, idbLayer, platform>>

\* await requestPermission({mode: 'readwrite'}): the user grants or denies
RequestPermissionSettles(i, requestedPermission) ==
    /\ layerOp.layer = "filesystem"
    /\ i \in DOMAIN fsLayer.inits /\ fsLayer.inits[i].pc = "request"
    /\ Quiescent
    /\ platform' = [platform EXCEPT !.permission = requestedPermission]
    /\ fsLayer' =
          IF requestedPermission = "granted"
          THEN [fsLayer EXCEPT !.inits[i].pc = "fulfilled"]
          ELSE [fsLayer EXCEPT !.inits[i] =
                   Rejected(@, "Write permission denied for directory", i)]
    /\ UNCHANGED <<idb, dirs, repoVars, appVars, layerOp, idbLayer>>

\* getDirectoryHandle() after await this.init(): the rejection of the run,
\* or the handle, or "Directory handle not initialized"
FileSystemLayerOperationSettles(k) ==
    /\ layerOp.layer = "filesystem"
    /\ k \in DOMAIN fsLayer.ops
    /\ LET o == fsLayer.ops[k]
           run == fsLayer.inits[o.init]
       IN /\ HasSettled(run)
          /\ layerOp' = [layer |-> "filesystem", op |-> "operation", arg |-> o,
                         prior |-> Null,
                         out |-> IF run.pc = "rejected" THEN Fail(run.err)
                                 ELSE IF fsLayer.directoryHandle = Null
                                 THEN Fail(InitError("Directory handle not initialized", 0))
                                 ELSE Ok(Void)]
    /\ fsLayer' = [fsLayer EXCEPT !.ops = RemoveAt(@, k)]
    /\ UNCHANGED <<idb, dirs, repoVars, appVars, idbLayer, platform>>

\* reset()
FileSystemLayerReset ==
    /\ layerOp.layer = "filesystem"
    /\ fsLayer.resets < MaxResets
    /\ fsLayer' = [fsLayer EXCEPT !.directoryHandle = Null, !.initPromise = 0,
                                  !.resets = @ + 1]
    /\ UNCHANGED <<idb, dirs, repoVars, appVars, layerOp, idbLayer, platform>>

\* setDirectoryHandle(handle)
FileSystemLayerSetDirectoryHandle ==
    /\ layerOp.layer = "filesystem"
    /\ fsLayer.resets < MaxResets
    /\ fsLayer' = [fsLayer EXCEPT !.directoryHandle = Handle("set"), !.initPromise = 0,
                                  !.resets = @ + 1]
    /\ UNCHANGED <<idb, dirs, repoVars, appVars, layerOp, idbLayer, platform>>

\* the user or the browser changes the permission of the directory
PermissionChanges(permission) ==
    /\ layerOp.layer = "filesystem"
    /\ permission # platform.permission
    /\ platform' = [platform EXCEPT !.permission = permission]
    /\ UNCHANGED <<idb, dirs, repoVars, appVars, layerOp, fsLayer, idbLayer>>

\* isAvailable()
FileSystemLayer_isAvailable(l, p) ==
    IF ~p.api THEN FALSE
    ELSE IF l.directoryHandle # Null
    THEN IF p.permission = "error" THEN FALSE ELSE p.permission = "granted"
    ELSE TRUE

FileSystemLayerIsAvailable ==
    /\ layerOp.layer = "filesystem"
    /\ layerOp' = [layer |-> "filesystem", op |-> "isAvailable",
                   arg |-> [directoryHandle |-> fsLayer.directoryHandle,
                            api |-> platform.api,
                            permission |-> platform.permission],
                   prior |-> Null,
                   out |-> Ok(FileSystemLayer_isAvailable(fsLayer, platform))]
    /\ UNCHANGED <<idb, dirs, repoVars, appVars, fsLayer, idbLayer, platform>>

\* initDB(): the memoized promise, or a new one around indexedDB.open
IndexedDBLayer_initDB(l) ==
    IF Memoized(l.dbPromise, l.opens) THEN l
    ELSE [l EXCEPT !.dbPromise = Len(l.opens) + 1,
                   !.opens = Append(@, InitRun("open", l.closes, 0))]

\* an operation calls initDB() and awaits it
IndexedDBLayerOperation ==
    /\ layerOp.layer = "indexeddb"
    /\ Len(idbLayer.ops) < MaxPending
    /\ LET l == IndexedDBLayer_initDB(idbLayer)
       IN /\ Len(l.opens) <= MaxResets + 2
          /\ idbLayer' = [l EXCEPT !.ops = Append(@, [init |-> l.dbPromise,
                                                      epoch |-> l.closes])]
    /\ UNCHANGED <<idb, dirs, repoVars, appVars, layerOp, fsLayer, platform>>

\* request.onsuccess / request.onerror of indexedDB.open
OpenSettles(i, opened) ==
    /\ layerOp.layer = "indexeddb"
    /\ i \in DOMAIN idbLayer.opens /\ idbLayer.opens[i].pc = "open"
    /\ Quiescent
    /\ idbLayer' =
          IF opened THEN [idbLayer EXCEPT !.opens[i].pc = "fulfilled"]
          ELSE [idbLayer EXCEPT !.opens[i] =
                   Rejected(@, "Failed to open IndexedDB", i)]
    /\ UNCHANGED <<idb, dirs, repoVars, appVars, layerOp, fsLayer, platform>>

\* db.transaction(...) after await this.initDB(): the rejection of the open,
\* or an InvalidStateError when close() has closed the connection meanwhile
IndexedDBLayerOperationSettles(k) ==
    /\ layerOp.layer = "indexeddb"
    /\ k \in DOMAIN idbLayer.ops
    /\ LET o == idbLayer.ops[k]
           run == idbLayer.opens[o.init]
       IN /\ HasSettled(run)
          /\ layerOp' = [layer |-> "indexeddb", op |-> "operation", arg |-> o,
                         prior |-> Null,
                         out |-> IF run.pc = "rejected" THEN Fail(run.err)
                                 ELSE IF run.pc = "closed"
                                 THEN Fail(InitError("InvalidStateError", 0))
                                 ELSE Ok(Void)]
    /\ idbLayer' = [idbLayer EXCEPT !.ops = RemoveAt(@, k)]
    /\ UNCHANGED <<idb, dirs, repoVars, appVars, fsLayer, platform>>

\* close(), up to await this.dbPromise; without a dbPromise it does nothing
IndexedDBLayerClose ==
    /\ layerOp.layer = "indexeddb"
    /\ idbLayer.dbPromise # 0
    /\ idbLayer.closes + Len(idbLayer.closing) < MaxResets
    /\ idbLayer' = [idbLayer EXCEPT !.closing = Append(@, idbLayer.dbPromise)]
    /\ UNCHANGED <<idb, dirs, repoVars, appVars, layerOp, fsLayer, platform>>

\* close(), after the await: db.close() and this.dbPromise = null; when the
\* promise rejected the await throws and dbPromise stays
IndexedDBLayerCloseSettles(k) ==
    /\ layerOp.layer = "indexeddb"
    /\ k \in DOMAIN idbLayer.closing
    /\ LET i == idbLayer.closing[k]
           run == idbLayer.opens[i]
       IN /\ HasSettled(run)
          /\ idbLayer' =
                IF run.pc = "rejected"
                THEN [idbLayer EXCEPT !.closing = RemoveAt(@, k)]
                ELSE [idbLayer EXCEPT !.closing = RemoveAt(@, k),
                                      !.opens[i].pc = "closed",
                                      !.dbPromise = 0, !.closes = @ + 1]
          /\ layerOp' = [layer |-> "indexeddb", op |-> "close", arg |-> [init |-> i],
                         prior |-> Null,
                         out |-> IF run.pc = "rejected" THEN Fail(run.err)
                                 ELSE Ok(Void)]
    /\ UNCHANGED <<idb, dirs, repoVars, appVars, fsLayer, platform>>

\* the layers as they can be constructed: FileSystemLayer with or without a
\* handle
Handles == {Null, Handle("given")}

LifecycleInit ==
    /\ BaseInit
    /\ config = [syncWritesImmediately |-> FALSE, fallbackOnError |-> FALSE,
                 secondaryLayers |-> <<>>, syncCoordinator |-> FALSE]
    /\ \E l \in LayerNames :
          layerOp = [layer |-> l, op |-> "none", arg |-> Null, prior |-> Null,
                     out |-> Ok(Void)]
    /\ fsLayer \in {NewFileSystemLayer(h) : h \in Handles}
    /\ idbLayer = NewIndexedDBLayer
    /\ platform \in [api : {TRUE}, permission : Permissions]
    /\ factory = NewRepositoryFactory
    /\ hook = NewUseWeeklyData(WeekId(2024, 1))

LifecycleNext ==
    \/ FileSystemLayerOperation
    \/ \E i \in 1..(MaxResets + 2), persistedHandle \in {Null, Handle("persisted")} :
          LoadDirectoryHandleSettles(i, persistedHandle)
    \/ \E i \in 1..(MaxResets + 2), picked \in BOOLEAN :
          ShowDirectoryPickerSettles(i, picked)
    \/ \E i \in 1..(MaxResets + 2), saved \in BOOLEAN :
          SaveDirectoryHandleSettles(i, saved)
    \/ \E i \in 1..(MaxResets + 2) : QueryPermissionSettles(i)
    \/ \E i \in 1..(MaxResets + 2), requestedPermission \in {"granted", "denied"} :
          RequestPermissionSettles(i, requestedPermission)
    \/ \E k \in 1..MaxPending : FileSystemLayerOperationSettles(k)
    \/ FileSystemLayerReset
    \/ FileSystemLayerSetDirectoryHandle
    \/ \E permission \in Permissions : PermissionChanges(permission)
    \/ IndexedDBLayerOperation
    \/ \E i \in 1..(MaxResets + 2), opened \in BOOLEAN : OpenSettles(i, opened)
    \/ \E k \in 1..MaxPending : IndexedDBLayerOperationSettles(k)
    \/ IndexedDBLayerClose
    \/ \E k \in 1..MaxResets : IndexedDBLayerCloseSettles(k)

LifecycleSpec == LifecycleInit /\ [][LifecycleNext]_vars

\* isAvailable() of a FileSystemLayer whose handle is set and dropped, on a
\* platform with or without the directory API, while the permission of the
\* directory changes
AvailabilityInit ==
    /\ BaseInit
    /\ config = [syncWritesImmediately |-> FALSE, fallbackOnError |-> FALSE,
                 secondaryLayers |-> <<>>, syncCoordinator |-> FALSE]
    /\ layerOp = [layer |-> "filesystem", op |-> "none", arg |-> Null,
                 prior |-> Null, out |-> Ok(Void)]
    /\ fsLayer \in {NewFileSystemLayer(h) : h \in Handles}
    /\ idbLayer = NewIndexedDBLayer
    /\ platform \in [api : BOOLEAN, permission : Permissions]
    /\ factory = NewRepositoryFactory
    /\ hook = NewUseWeeklyData(WeekId(2024, 1))

AvailabilityNext ==
    \/ FileSystemLayerIsAvailable
    \/ \E permission \in Permissions : PermissionChanges(permission)
    \/ FileSystemLayerReset
    \/ FileSystemLayerSetDirectoryHandle

AvailabilitySpec == AvailabilityInit /\ [][AvailabilityNext]_vars

\* ------------------------------------------------------------------------
\* Saves of the primary layer that overlap: save() awaits get() in one
\* transaction and store.put in another, and other saves run in between
\* ------------------------------------------------------------------------
\* save(input) is called: get(identifier) is issued
IndexedDBLayerSaveStarts(input) ==
    /\ nCalls < MaxWrites
    /\ Len(tasks) < MaxTasks
    /\ tasks' = Append(tasks, [layer |-> Primary, op |-> "save", arg |-> input,
                               pc |-> "get", existing |-> Null])
    /\ nCalls' = nCalls + 1
    /\ UNCHANGED <<idb, dirs, config, call, lastWrite, primaryFailed, layerOp,
                   lifecycleVars>>

\* const existing = await this.get(identifier)
IndexedDBLayerSaveReads(k) ==
    /\ k \in DOMAIN tasks /\ tasks[k].pc = "get"
    /\ tasks' = [tasks EXCEPT ![k].pc = "put",
                              ![k].existing =
                                  IndexedDBLayer_get(idb, tasks[k].arg.weekId).val]
    /\ UNCHANGED <<idb, dirs, config, call, nCalls, lastWrite, primaryFailed,
                   layerOp, lifecycleVars>>

\* await this.executeTransaction('readwrite', (store) => store.put(dataToSave))
\* and return dataToSave
IndexedDBLayerSaveWrites(k) ==
    /\ k \in DOMAIN tasks /\ tasks[k].pc = "put"
    /\ LET dataToSave == MergeRecord(tasks[k].arg, tasks[k].existing)
       IN /\ idb' = StorePut(idb, dataToSave)
          /\ lastWrite' = [lastWrite EXCEPT ![dataToSave.weekId] = dataToSave]
          /\ layerOp' = [layer |-> "indexeddb", op |-> "save", arg |-> tasks[k].arg,
                         prior |-> tasks[k].existing, out |-> Ok(dataToSave)]
    /\ tasks' = RemoveAt(tasks, k)
    /\ UNCHANGED <<dirs, config, call, nCalls, primaryFailed, lifecycleVars>>

OverlapKeys == {WeekId(2024, 1), WeekId(2024, 2)}

OverlapInputs ==
    {in \in SaveWeeklyDataInput :
        /\ in.weekId \in OverlapKeys
        /\ in.challenges = Undefined
        /\ \/ in.statusIcon = Undefined /\ in.achievements = "A"
           \/ in.statusIcon # Undefined /\ in.achievements = Undefined}

OverlapInit ==
    /\ LayerInit
    /\ layerOp.layer = "indexeddb"

OverlapNext ==
    \/ \E input \in OverlapInputs : IndexedDBLayerSaveStarts(input)
    \/ \E k \in 1..MaxTasks : IndexedDBLayerSaveReads(k)
    \/ \E k \in 1..MaxTasks : IndexedDBLayerSaveWrites(k)

OverlapSpec == OverlapInit /\ [][OverlapNext]_vars

\* ------------------------------------------------------------------------
\* RepositoryFactory
\* ------------------------------------------------------------------------
\* RepositoryConfig; an optional flag that is left out is undefined
RepositoryConfig ==
    [enableFileSystem : BOOLEAN,
     directoryHandle : {Missing, Handle("h1"), Handle("h2")},
     syncWritesImmediately : {Undefined, "true", "false"},
     fallbackOnError : {Undefined, "true", "false"}]

\* the config getInstance() records for its default repository
DefaultConfig ==
    [enableFileSystem |-> FALSE, directoryHandle |-> Missing,
     syncWritesImmediately |-> Undefined, fallbackOnError |-> Undefined]

\* needsReconfiguration of configure()
needsReconfiguration(currentConfig, c) ==
    \/ currentConfig = Null
    \/ currentConfig.enableFileSystem # c.enableFileSystem
    \/ currentConfig.directoryHandle # c.directoryHandle

\* this.instance = this.createRepository(config)
createRepository(f, c) ==
    [f EXCEPT !.instance = f.created + 1, !.created = @ + 1]

RepositoryFactory_configure(c) ==
    /\ factory.created < MaxInstances
    /\ factory' =
          LET f == IF needsReconfiguration(factory.currentConfig, c)
                   THEN [createRepository(factory, c) EXCEPT !.currentConfig = c]
                   ELSE factory
          IN [f EXCEPT !.last = [op |-> "configure", config |-> c]]
    /\ UNCHANGED <<idb, dirs, repoVars, layerOp, fsLayer, idbLayer, platform, hook>>

RepositoryFactory_getInstance ==
    /\ factory.created < MaxInstances
    /\ factory' =
          LET f == IF factory.instance = 0
                   THEN [createRepository(factory, DefaultConfig)
                             EXCEPT !.currentConfig = DefaultConfig]
                   ELSE factory
          IN [f EXCEPT !.last = [op |-> "getInstance", out |-> f.instance]]
    /\ UNCHANGED <<idb, dirs, repoVars, layerOp, fsLayer, idbLayer, platform, hook>>

RepositoryFactory_reset ==
    /\ factory' = [factory EXCEPT !.instance = 0, !.currentConfig = Null,
                                  !.last = [op |-> "reset"]]
    /\ UNCHANGED <<idb, dirs, repoVars, layerOp, fsLayer, idbLayer, platform, hook>>

FactoryNext ==
    \/ \E c \in RepositoryConfig : RepositoryFactory_configure(c)
    \/ RepositoryFactory_getInstance
    \/ RepositoryFactory_reset

FactorySpec == LayerInit /\ [][FactoryNext]_vars

\* ------------------------------------------------------------------------
\* useWeeklyData over a repository whose contents do not change
\* ------------------------------------------------------------------------
\* loadData() up to await repository.get(currentWeekId)
loadData(h) ==
    [h EXCEPT !.isLoading = TRUE, !.error = Null,
              !.loads = Append(@, h.weekId)]

\* the weekId ref is given another week: the watcher calls loadData()
WeekIdChanges(weekId) ==
    /\ weekId # hook.weekId
    /\ Len(hook.loads) < MaxLoads
    /\ hook' = loadData([hook EXCEPT !.weekId = weekId])
    /\ UNCHANGED <<idb, dirs, repoVars, layerOp, fsLayer, idbLayer, platform, factory>>

\* refresh()
Refresh ==
    /\ Len(hook.loads) < MaxLoads
    /\ hook' = loadData(hook)
    /\ UNCHANGED <<idb, dirs, repoVars, layerOp, fsLayer, idbLayer, platform, factory>>

\* repository.get(currentWeekId) of the k-th outstanding load resolves:
\* data.value = existingData or null; finally isLoading.value = false
LoadResolves(k) ==
    /\ k \in DOMAIN hook.loads
    /\ hook' = [hook EXCEPT !.data = IndexedDBLayer_get(idb, hook.loads[k]).val,
                            !.isLoading = FALSE,
                            !.loads = RemoveAt(@, k)]
    /\ UNCHANGED <<idb, dirs, repoVars, layerOp, fsLayer, idbLayer, platform, factory>>

\* it rejects: error.value = err; finally isLoading.value = false
LoadRejects(k) ==
    /\ k \in DOMAIN hook.loads
    /\ hook' = [hook EXCEPT !.error = [name |-> "Error", message |-> "Load failed"],
                            !.isLoading = FALSE,
                            !.loads = RemoveAt(@, k)]
    /\ UNCHANGED <<idb, dirs, repoVars, layerOp, fsLayer, idbLayer, platform, factory>>

\* a repository that holds a record for each of the given weeks
HookStore(weekIds) ==
    {MergeRecord([weekId |-> k, statusIcon |-> "Good", achievements |-> Undefined,
                  challenges |-> Undefined], Null) : k \in weekIds}

HookInit ==
    /\ \E weekIds \in SUBSET Keys : idb = HookStore(weekIds)
    /\ dirs = [l \in SecondaryIds |-> EmptyDir]
    /\ call = NoCall
    /\ tasks = <<>>
    /\ nCalls = 0
    /\ lastWrite = [k \in Keys |-> Null]
    /\ primaryFailed = FALSE
    /\ config = [syncWritesImmediately |-> FALSE, fallbackOnError |-> FALSE,
                 secondaryLayers |-> <<>>, syncCoordinator |-> FALSE]
    /\ layerOp = [layer |-> "none", op |-> "none", arg |-> Null, prior |-> Null,
                 out |-> Ok(Void)]
    /\ fsLayer = NewFileSystemLayer(Handle("given"))
    /\ idbLayer = NewIndexedDBLayer
    /\ platform = [api |-> TRUE, permission |-> "granted"]
    /\ factory = NewRepositoryFactory
    /\ \E weekId \in Keys : hook = NewUseWeeklyData(weekId)

HookNext ==
    \/ \E weekId \in Keys : WeekIdChanges(weekId)
    \/ Refresh
    \/ \E k \in 1..MaxLoads : LoadResolves(k)
    \/ \E k \in 1..MaxLoads : LoadRejects(k)

HookSpec == HookInit /\ [][HookNext]_vars

\* ------------------------------------------------------------------------
\* LayeredRepository
\* ------------------------------------------------------------------------
\* readonly priority of each layer (IndexedDBLayer 100, FileSystemLayer 50; the
\* second secondary layer stands for a layer configured with a higher one)
LayerPriority == [l \in {Primary} \cup SecondaryIds |->
                    IF l = Primary THEN 100 ELSE IF l = "sec1" THEN 50 ELSE 75]

\* [...layers].sort((a, b) => b.priority - a.priority): stable, descending
RECURSIVE InsertByPriority(_, _)
InsertByPriority(sorted, l) ==
    IF sorted = <<>> THEN <<l>>
    ELSE IF LayerPriority[Head(sorted)] >= LayerPriority[l]
         THEN <<Head(sorted)>> \o InsertByPriority(Tail(sorted), l)
         ELSE <<l>> \o sorted

RECURSIVE SortByPriority(_)
SortByPriority(layers) ==
    IF layers = <<>> THEN <<>>
    ELSE InsertByPriority(SortByPriority(SubSeq(layers, 1, Len(layers) - 1)),
                          layers[Len(layers)])

LayerError(l, op) == [name |-> "Error", layer |-> l, op |-> op]

\* What an operation of the primary layer can do: the set of [out, store] it
\* may settle with. Any operation may reject (quota, a failed transaction),
\* leaving the store as it was.
PrimaryResults(op, arg) ==
    LET real ==
          CASE op = "save" -> IndexedDBLayer_save(idb, arg)
            [] op = "delete" -> IndexedDBLayer_delete(idb, arg)
            [] op = "get" -> [out |-> IndexedDBLayer_get(idb, arg), store |-> idb]
            [] op = "getRange" ->
                 [out |-> IndexedDBLayer_getRange(idb, arg.start, arg.end), store |-> idb]
            [] op = "getByYear" ->
                 [out |-> IndexedDBLayer_getByYear(idb, arg.year), store |-> idb]
            [] op = "getWeeksWithData" ->
                 [out |-> IndexedDBLayer_getWeeksWithData(idb, arg.year), store |-> idb]
        failed == [out |-> Fail(LayerError(Primary, op)), store |-> idb]
    IN {real, failed}

\* What a read of a secondary layer can settle with: its result, or a
\* rejection (permission revoked, an I/O error)
SecondaryReads(l, op, arg) ==
    LET real ==
          CASE op = "get" -> FileSystemLayer_get(dirs[l], arg)
            [] op = "getRange" -> FileSystemLayer_getRange(dirs[l], arg.start, arg.end)
            [] op = "getByYear" -> FileSystemLayer_getByYear(dirs[l], arg.year)
            [] op = "getWeeksWithData" ->
                 FileSystemLayer_getWeeksWithData(dirs[l], arg.year)
    IN {real, Fail(LayerError(l, op))}

Event(l, op, arg, out) == [layer |-> l, op |-> op, arg |-> arg, out |-> out]

Idle == call.pc = "idle"

Done(c, out) == [c EXCEPT !.pc = "done", !.out = out, !.next = 0,
                          !.found = Null, !.waiting = 0]

SyncInputDropsStatus(data) ==
    [weekId |-> data.weekId, statusIcon |-> Undefined,
     achievements |-> data.achievements, challenges |-> data.challenges]

\* the input syncToSecondaryLayers builds from the record the primary resolved
SyncInput(data) ==
    [weekId |-> data.weekId, statusIcon |-> data.statusIcon,
     achievements |-> data.achievements, challenges |-> data.challenges]

FanOutAlwaysBlocking == TRUE

\* whether save()/delete() awaits the secondary layers
FanOutBlocking == config.syncWritesImmediately

\* the secondary operations one fan-out starts, one per configured layer
FanOutTasks(op, arg) ==
    [i \in 1..Len(config.secondaryLayers) |->
        [layer |-> config.secondaryLayers[i], op |-> op, arg |-> arg,
         pc |-> "read", prep |-> Null, awaited |-> FanOutBlocking]]

FanOutEvents(op, arg) ==
    [i \in 1..Len(config.secondaryLayers) |->
        Event(config.secondaryLayers[i], op, arg, Pending)]

CanWrite ==
    /\ Idle
    /\ nCalls < MaxWrites
    /\ Len(tasks) + Len(config.secondaryLayers) <= MaxTasks

\* what save()/delete() does once the primary operation has resolved
AfterPrimaryWrite(c, op, arg, out) ==
    IF FanOutBlocking
    THEN [c EXCEPT !.pc = "awaitSecondaries", !.out = out,
                   !.waiting = Len(config.secondaryLayers),
                   !.log = c.log \o FanOutEvents(op, arg)]
    ELSE Done([c EXCEPT !.log = c.log \o FanOutEvents(op, arg)], out)

NewCall(op, arg) == [NoCall EXCEPT !.op = op, !.arg = arg]

RejectsSwallowed(c, out) == Done(c, Ok(Void))

\* save()/delete() has no catch around the awaited primary operation: the
\* call rejects with the error the primary operation rejected with
Rejects(c, out) == Done(c, out)

\* save(input) / delete(weekId): the primary operation and what follows in
\* the same turn
Write(op, arg) ==
    /\ CanWrite
    /\ nCalls' = nCalls + 1
    /\ \E r \in PrimaryResults(op, arg) :
         LET c == [NewCall(op, arg) EXCEPT !.log = <<Event(Primary, op, arg, r.out)>>]
             fanArg == IF op = "save" THEN SyncInput(r.out.val) ELSE arg
         IN IF r.out.ok
            THEN /\ idb' = r.store
                 /\ lastWrite' =
                      [lastWrite EXCEPT ![IF op = "save" THEN arg.weekId ELSE arg] =
                          IF op = "save" THEN r.out.val ELSE Null]
                 /\ tasks' = tasks \o FanOutTasks(op, fanArg)
                 /\ call' = AfterPrimaryWrite(c, op, fanArg, r.out)
                 /\ UNCHANGED primaryFailed
            ELSE /\ call' = Rejects(c, r.out)
                 /\ primaryFailed' = TRUE
                 /\ UNCHANGED <<idb, lastWrite, tasks>>
    /\ UNCHANGED <<dirs, config, layerOp, lifecycleVars>>

LayeredRepository_save(input) == Write("save", input)

LayeredRepository_delete(weekId) == Write("delete", weekId)

\* await of the all-settled join of a blocking fan-out
AwaitSecondaries ==
    /\ call.pc = "awaitSecondaries"
    /\ call.waiting = 0
    /\ call' = Done(call, call.out)
    /\ UNCHANGED <<idb, dirs, config, tasks, nCalls, lastWrite,
                   primaryFailed, layerOp, lifecycleVars>>

\* the value a fallback returns when no secondary layer yields one
EmptyResult(op) ==
    CASE op = "get" -> Null
      [] op = "getRange" -> List(<<>>)
      [] op = "getByYear" -> List(<<>>)
      [] op = "getWeeksWithData" -> WeekSet({})

SortedLayersInConfigOrder == config.secondaryLayers

\* [...this.secondaryLayers].sort((a, b) => b.priority - a.priority)
SortedLayers == SortByPriority(config.secondaryLayers)

NextLayerThrows(c, idx) ==
    IF idx >= Len(SortedLayers) THEN Done(c, Fail(LayerError("all", c.op)))
    ELSE [c EXCEPT !.pc = "fallback", !.next = idx + 1]

\* the fallback loop moves on from the layer at index idx
NextLayer(c, idx) ==
    IF idx >= Len(SortedLayers) THEN Done(c, Ok(EmptyResult(c.op)))
    ELSE [c EXCEPT !.pc = "fallback", !.next = idx + 1]

\* whether a failed primary read is answered from the secondary layers
UsesFallback == config.fallbackOnError

RethrownWrapped(err) == [name |-> "Error", cause |-> err]

\* the error a read rejects with when the primary read rejected with err
Rethrown(err) == err

\* whether the catch block of a read runs
Caught(out) == ~out.ok

\* What the call syncCoordinator.syncItem(weekId) can do: return a promise
\* (Pending: nothing awaits it, and whether it resolves, rejects or never
\* settles reaches only the handler attached with .catch, which logs), or
\* throw before it returns one.
SyncItemResults(weekId) == {Pending, Fail(LayerError(Coordinator, "syncItem"))}

\* the catch block of a read: the fallback when configured, else the rethrow
OnCaught(c, err) ==
    IF UsesFallback THEN NextLayer(c, 0) ELSE Done(c, Fail(Rethrown(err)))

\* get / getRange / getByYear / getWeeksWithData: the primary read and what
\* follows in the same turn. In get, the call of syncItem stands inside the
\* try block, so what it throws is caught like a failure of the primary read.
Read(op, arg) ==
    /\ Idle
    /\ \E r \in PrimaryResults(op, arg) :
         LET c == [NewCall(op, arg) EXCEPT
                      !.log = <<Event(Primary, op, arg, r.out)>>]
         IN IF ~Caught(r.out)
            THEN /\ UNCHANGED primaryFailed
                 /\ IF op = "get" /\ config.syncCoordinator
                    THEN \E s \in SyncItemResults(arg) :
                           LET cs == [c EXCEPT !.log = c.log \o
                                        <<Event(Coordinator, "syncItem", arg, s)>>]
                           IN call' = IF s = Pending THEN Done(cs, r.out)
                                      ELSE OnCaught(cs, s.err)
                    ELSE call' = Done(c, r.out)
            ELSE /\ primaryFailed' = TRUE
                 /\ call' = OnCaught(c, r.out.err)
    /\ UNCHANGED <<idb, dirs, config, tasks, nCalls, lastWrite, layerOp, lifecycleVars>>

LayeredRepository_get(weekId) == Read("get", weekId)

LayeredRepository_getRange(start, end) ==
    Read("getRange", [start |-> start, end |-> end])

LayeredRepository_getByYear(year) == Read("getByYear", [year |-> year])

LayeredRepository_getWeeksWithData(year) == Read("getWeeksWithData", [year |-> year])

TruthyNever(result) == FALSE

\* whether fallbackGet takes a secondary layer's result: `if (result)`
Truthy(result) == result # Null

\* one iteration of the loop of fallbackGet / fallbackGetRange /
\* fallbackGetByYear / fallbackGetWeeksWithData
FallbackStep ==
    /\ call.pc = "fallback"
    /\ \E out \in SecondaryReads(SortedLayers[call.next], call.op, call.arg) :
         LET l == SortedLayers[call.next]
             c == [call EXCEPT !.log = call.log \o <<Event(l, call.op, call.arg, out)>>]
         IN call' = IF ~out.ok THEN NextLayer(c, call.next)
                    ELSE IF call.op # "get" THEN Done(c, out)
                    ELSE IF Truthy(out.val)
                         THEN [c EXCEPT !.pc = "repair", !.found = out.val]
                         ELSE NextLayer(c, call.next)
    /\ UNCHANGED <<idb, dirs, config, tasks, nCalls, lastWrite,
                   primaryFailed, layerOp, lifecycleVars>>

AfterRepairPropagates(c, out) == Done(c, IF out.ok THEN Ok(c.found) ELSE out)

\* fallbackGet once the repair save has settled with out: a rejection is
\* caught and logged, and the found record is returned
AfterRepair(c, out) == Done(c, Ok(c.found))

\* fallbackGet: the best-effort save of the found record into the primary
\* layer, its failure swallowed, then the return of the found record
RepairStep ==
    /\ call.pc = "repair"
    /\ \E r \in PrimaryResults("save", SyncInput(call.found)) :
         /\ idb' = r.store
         /\ call' = AfterRepair([call EXCEPT !.log = call.log \o
                            <<Event(Primary, "save", SyncInput(call.found), r.out)>>],
                         r.out)
    /\ UNCHANGED <<dirs, config, tasks, nCalls, lastWrite,
                   primaryFailed, layerOp, lifecycleVars>>

SettleRejecting(i, out) ==
    /\ tasks' = RemoveAt(tasks, i)
    /\ call' = IF tasks[i].awaited /\ ~out.ok THEN Done(call, out)
               ELSE IF tasks[i].awaited
               THEN [call EXCEPT !.waiting = call.waiting - 1,
                                 !.log = call.log \o
                                   <<Event(tasks[i].layer, "settled", tasks[i].arg, out)>>]
               ELSE call

\* the operation of task i settles: one promise of the all-settled join
Settle(i, out) ==
    /\ tasks' = RemoveAt(tasks, i)
    /\ call' = IF tasks[i].awaited
               THEN [call EXCEPT !.waiting = call.waiting - 1,
                                 !.log = call.log \o
                                   <<Event(tasks[i].layer, "settled", tasks[i].arg, out)>>]
               ELSE call

\* no I/O completes between the settlement of the repository call and the
\* resumption of its caller
Running == call.pc # "done"

\* the read half of a secondary save/delete: readYearFile and the merge
TaskRead(i) ==
    /\ Running
    /\ tasks[i].pc = "read"
    /\ LET t == tasks[i]
           p == IF t.op = "save" THEN FileSystemLayer_savePrepare(dirs[t.layer], t.arg)
                ELSE FileSystemLayer_deletePrepare(dirs[t.layer], t.arg)
       IN IF t.op = "delete" /\ p.todo = "none"
          THEN Settle(i, p.out)
          ELSE /\ tasks' = [tasks EXCEPT ![i].pc = "write", ![i].prep = p]
               /\ UNCHANGED call
    /\ UNCHANGED <<idb, dirs, config, nCalls, lastWrite, primaryFailed, layerOp, lifecycleVars>>

\* the write half: writeYearFile or removeEntry
TaskWrite(i) ==
    /\ Running
    /\ tasks[i].pc = "write"
    /\ LET t == tasks[i]
           w == IF t.op = "save"
                THEN writeYearFile(dirs[t.layer], t.arg.weekId.year, t.prep.yearData)
                ELSE FileSystemLayer_deleteCommit(dirs[t.layer], t.arg, t.prep)
       IN /\ dirs' = [dirs EXCEPT ![t.layer] = w.dir]
          /\ Settle(i, IF t.op = "save" THEN t.prep.out ELSE w.out)
    /\ UNCHANGED <<idb, config, nCalls, lastWrite, primaryFailed, layerOp, lifecycleVars>>

\* the secondary operation rejects (permission revoked, a failed write)
\* without having changed its directory
TaskFail(i) ==
    /\ Running
    /\ Settle(i, Fail(LayerError(tasks[i].layer, tasks[i].op)))
    /\ UNCHANGED <<idb, dirs, config, nCalls, lastWrite, primaryFailed, layerOp, lifecycleVars>>

\* the caller of the settled repository call resumes
Return ==
    /\ call.pc = "done"
    /\ call' = NoCall
    /\ UNCHANGED <<idb, dirs, config, tasks, nCalls, lastWrite, primaryFailed, layerOp, lifecycleVars>>

LayerConfigs == {<<>>, <<"sec1">>, <<"sec1", "sec2">>}

\* keys and inputs of the repository calls of the model
RepoYears == {y \in Years : y <= 2024}

RepoKeys == {k \in Keys : k.year \in RepoYears}

\* the week the calls of the model write; the other weeks are only read
WriteKeys == {k \in RepoKeys : k.week <= 1}

RepoInputs ==
    {in \in SaveWeeklyDataInput :
        /\ in.weekId \in WriteKeys
        /\ in.challenges = Undefined
        /\ \/ in.statusIcon = Undefined /\ in.achievements = "A"
           \/ in.statusIcon # Undefined /\ in.achievements = Undefined}

Init ==
    /\ BaseInit
    /\ LayersConstructed
    /\ config \in [syncWritesImmediately : BOOLEAN, fallbackOnError : BOOLEAN,
                    secondaryLayers : LayerConfigs, syncCoordinator : BOOLEAN]
    /\ layerOp = [layer |-> "none", op |-> "none", arg |-> Null, prior |-> Null,
                  out |-> Ok(Void)]

Next ==
    \/ \E input \in RepoInputs : LayeredRepository_save(input)
    \/ \E weekId \in WriteKeys : LayeredRepository_delete(weekId)
    \/ \E weekId \in RepoKeys : LayeredRepository_get(weekId)
    \/ \E start, end \in RepoKeys : start # end /\ LayeredRepository_getRange(start, end)
    \/ \E year \in RepoYears : LayeredRepository_getByYear(year)
    \/ \E year \in RepoYears : LayeredRepository_getWeeksWithData(year)
    \/ AwaitSecondaries
    \/ FallbackStep
    \/ RepairStep
    \/ \E i \in 1..Len(tasks) : TaskRead(i)
    \/ \E i \in 1..Len(tasks) : TaskWrite(i)
    \/ \E i \in 1..Len(tasks) : TaskFail(i)
    \/ Return

Spec == Init /\ [][Next]_vars

\* ------------------------------------------------------------------------
\* Background fan-out: a repository with one FileSystemLayer that writes two
\* weeks of one year, every call awaited before the next, no secondary
\* operation failing
\* ------------------------------------------------------------------------
BackgroundKeys == {k \in Keys : k.year = 2024}

BackgroundInputs ==
    {in \in SaveWeeklyDataInput :
        /\ in.weekId \in BackgroundKeys
        /\ in.challenges = Undefined
        /\ \/ in.statusIcon = Undefined /\ in.achievements = "A"
           \/ in.statusIcon # Undefined /\ in.achievements = Undefined}

BackgroundInit ==
    /\ BaseInit
    /\ LayersConstructed
    /\ config = [syncWritesImmediately |-> FALSE, fallbackOnError |-> FALSE,
                 secondaryLayers |-> <<"sec1">>, syncCoordinator |-> FALSE]
    /\ layerOp = [layer |-> "none", op |-> "none", arg |-> Null, prior |-> Null,
                  out |-> Ok(Void)]

BackgroundNext ==
    \/ \E input \in BackgroundInputs : LayeredRepository_save(input)
    \/ \E weekId \in BackgroundKeys : LayeredRepository_delete(weekId)
    \/ \E i \in 1..Len(tasks) : TaskRead(i)
    \/ \E i \in 1..Len(tasks) : TaskWrite(i)
    \/ Return

BackgroundSpec == BackgroundInit /\ [][BackgroundNext]_vars

\* ------------------------------------------------------------------------
\* A repository over a secondary layer whose capability flags canRead and
\* canWrite are set or not. The flags are fields of the layer objects handed
\* to the repository; no code of the repository reads them.
\* ------------------------------------------------------------------------
Capabilities == [canRead : BOOLEAN, canWrite : BOOLEAN]

CapabilityInit ==
    /\ BaseInit
    /\ LayersConstructed
    /\ config \in [syncWritesImmediately : BOOLEAN, fallbackOnError : {TRUE},
                    secondaryLayers : {<<"sec1">>}, syncCoordinator : {FALSE},
                    capabilities : {[l \in SecondaryIds |-> c] : c \in Capabilities}]
    /\ layerOp = [layer |-> "none", op |-> "none", arg |-> Null, prior |-> Null,
                  out |-> Ok(Void)]

CapabilitySpec == CapabilityInit /\ [][Next]_vars

\* ------------------------------------------------------------------------
\* C1: a layer's save stores and returns the complete record: a supplied
\* field (the empty string included) has the supplied value, an unsupplied
\* field the value of the record stored before under that key, or the
\* default when none was stored; a following get returns that record.
\* ------------------------------------------------------------------------
ExpectedField(input, prior, f) ==
    IF input[f] # Undefined THEN input[f]
    ELSE IF prior # Null THEN prior[f]
    ELSE DEFAULT_WEEKLY_DATA_VALUES[f]

C1_SaveMergesThenGetReturns ==
    layerOp.op = "save" =>
        /\ layerOp.out.ok
        /\ layerOp.out.val.weekId = layerOp.arg.weekId
        /\ \A f \in Fields :
              layerOp.out.val[f] = ExpectedField(layerOp.arg, layerOp.prior, f)
        /\ LayerGet(layerOp.layer, layerOp.arg.weekId) = Ok(layerOp.out.val)

\* an update that supplies an empty string over a stored non-empty value and
\* leaves another stored non-default field unsupplied
C1_Witness ==
    /\ layerOp.op = "save"
    /\ layerOp.layer = "filesystem"
    /\ layerOp.prior # Null
    /\ layerOp.prior.achievements = "A"
    /\ layerOp.prior.statusIcon = "Good"
    /\ layerOp.arg.achievements = ""
    /\ layerOp.arg.statusIcon = Undefined
    /\ layerOp.out.val.achievements = ""
    /\ layerOp.out.val.statusIcon = "Good"

\* ------------------------------------------------------------------------
\* Properties of the repository
\* ------------------------------------------------------------------------
ReadOps == {"get", "getRange", "getByYear", "getWeeksWithData"}
WriteOps == {"save", "delete"}

Active == call.pc # "idle"
Settled == call.pc = "done"

PrimaryEvents == {i \in DOMAIN call.log : call.log[i].layer = Primary}
SecondaryEvents == {i \in DOMAIN call.log : call.log[i].layer \in SecondaryIds}
Configured == {config.secondaryLayers[i] : i \in DOMAIN config.secondaryLayers}

\* C2: while the primary layer has not failed, a get of a key returns the
\* record returned by the last save of that key, or null when the key was
\* never saved or a delete of it followed, in either fan-out mode.
C2_ReadYourWrites ==
    (Settled /\ call.op = "get" /\ ~primaryFailed) =>
        call.out = Ok(lastWrite[call.arg])

\* C3: when the primary read succeeds, the repository returns exactly the
\* primary's result and reads no secondary layer, whatever fallbackOnError is.
C3_PrimaryReadIsFinal ==
    (Active /\ call.op \in ReadOps /\ call.log[1].out.ok) =>
        /\ Settled
        /\ call.out = call.log[1].out
        /\ SecondaryEvents = {}

\* C4: with fallbackOnError, when every primary operation of the read fails
\* and one secondary layer works (every other secondary read fails), the read
\* resolves with the value that layer returned.
C4_FallbackReturnsSecondary ==
    (Settled /\ call.op \in ReadOps /\ config.fallbackOnError
        /\ \A i \in PrimaryEvents : ~call.log[i].out.ok) =>
        \A i \in SecondaryEvents :
            (call.log[i].out.ok
                /\ \A j \in SecondaryEvents \ {i} : ~call.log[j].out.ok)
            => call.out = call.log[i].out

\* a get answered by the second secondary layer consulted, the first having
\* failed, and the repair save into the primary having failed too
C4_Witness ==
    /\ Settled /\ call.op = "get" /\ config.fallbackOnError
    /\ \A i \in PrimaryEvents : ~call.log[i].out.ok
    /\ Cardinality(PrimaryEvents) = 2
    /\ Cardinality(SecondaryEvents) = 2
    /\ call.out.ok
    /\ call.out.val # Null

\* C5: without fallbackOnError, a failed primary read makes the repository
\* read fail with that same error, and no secondary layer is used.
C5_ErrorPropagatesUnchanged ==
    (Active /\ call.op \in ReadOps /\ ~config.fallbackOnError
        /\ ~call.log[1].out.ok) =>
        /\ Settled
        /\ call.out = call.log[1].out
        /\ Len(call.log) = 1

\* a failed getRange with two secondary layers configured
C5_Witness ==
    /\ Settled /\ call.op = "getRange" /\ ~config.fallbackOnError
    /\ ~call.out.ok
    /\ Len(config.secondaryLayers) = 2
    /\ dirs["sec1"] # EmptyDir

ExpectedEmpty(op) == IF op = "get" THEN Null
                     ELSE IF op = "getWeeksWithData" THEN WeekSet({})
                     ELSE List(<<>>)

\* C6: with fallbackOnError a read never fails, and when the primary read
\* failed and every secondary layer consulted failed or held nothing, it
\* resolves to null / the empty array / the empty set.
C6_FallbackExhaustedIsEmpty ==
    (Settled /\ call.op \in ReadOps /\ config.fallbackOnError) =>
        /\ call.out.ok
        /\ (~call.log[1].out.ok
             /\ \A i \in SecondaryEvents :
                   ~call.log[i].out.ok \/ call.log[i].out.val = ExpectedEmpty(call.op))
            => call.out.val = ExpectedEmpty(call.op)

\* a getWeeksWithData whose primary read and both secondary reads failed
C6_Witness ==
    /\ Settled /\ call.op = "getWeeksWithData" /\ config.fallbackOnError
    /\ Len(call.log) = 3
    /\ \A i \in DOMAIN call.log : ~call.log[i].out.ok
    /\ call.out = Ok(WeekSet({}))

\* C7: save/delete settle with the outcome of the primary operation (success
\* with the primary's record, or its failure); a failing secondary operation
\* neither fails the call nor changes its result, and every configured
\* secondary layer is handed the write.
C7_SecondaryFailuresSwallowed ==
    (Active /\ call.op \in WriteOps) =>
        /\ call.log[1].layer = Primary
        /\ Settled => call.out = call.log[1].out
        /\ call.log[1].out.ok =>
              /\ call.out = call.log[1].out
              /\ \A l \in Configured :
                    \E i \in DOMAIN call.log :
                       /\ call.log[i].layer = l
                       /\ call.log[i].op = call.op
                       /\ call.log[i].out = Pending

\* a blocking save that returned the primary's record although one of its
\* two secondary saves failed and the other succeeded
C7_Witness ==
    /\ Settled /\ call.op = "save" /\ config.syncWritesImmediately
    /\ call.out.ok
    /\ \E i, j \in SecondaryEvents :
          /\ call.log[i].op = "settled" /\ ~call.log[i].out.ok
          /\ call.log[j].op = "settled" /\ call.log[j].out.ok

\* C8: without syncWritesImmediately, save/delete settle in the turn in which
\* the primary operation settles, whatever the secondary operations do; with
\* it, they settle only once every secondary operation has settled.
C8_FanOutTiming ==
    (Active /\ call.op \in WriteOps) =>
        /\ ~config.syncWritesImmediately => Settled
        /\ (config.syncWritesImmediately /\ Settled /\ call.log[1].out.ok) =>
              /\ \A l \in Configured :
                    \E i \in DOMAIN call.log :
                       call.log[i].layer = l /\ call.log[i].op = "settled"
              /\ \A i \in DOMAIN tasks : ~tasks[i].awaited

\* a non-blocking save that has returned while its secondary save has not
\* written yet
C8_Witness ==
    /\ Settled /\ call.op = "save" /\ ~config.syncWritesImmediately
    /\ call.out.ok
    /\ \E i \in DOMAIN tasks :
          /\ tasks[i].op = "save"
          /\ tasks[i].arg.weekId = call.out.val.weekId
          /\ FileSystemLayer_get(dirs[tasks[i].layer], call.arg.weekId).val
                # call.out.val

\* C9: every secondary save of a fan-out is given the weekId and the three
\* fields of the record the primary resolved; so when a blocking save returns
\* and no secondary save failed, every configured secondary layer stores
\* under that key the record the primary stores.
C9_FanOutCarriesResolvedRecord ==
    /\ \A i \in DOMAIN tasks :
          tasks[i].op = "save" => \A f \in Fields : tasks[i].arg[f] # Undefined
    /\ (Active /\ call.op = "save" /\ call.log[1].out.ok) =>
          /\ \A i \in SecondaryEvents :
                call.log[i].op = "save" =>
                   /\ call.log[i].arg.weekId = call.log[1].out.val.weekId
                   /\ \A f \in Fields :
                         call.log[i].arg[f] = call.log[1].out.val[f]
          /\ (Settled /\ config.syncWritesImmediately
               /\ \A i \in SecondaryEvents :
                     call.log[i].op = "settled" => call.log[i].out.ok) =>
                \A l \in Configured :
                   /\ FileSystemLayer_get(dirs[l], call.arg.weekId) = Ok(call.out.val)
                   /\ IndexedDBLayer_get(idb, call.arg.weekId) = Ok(call.out.val)

\* a blocking save of a partial input over a record whose earlier secondary
\* save had failed: the secondary layers still end with the primary's record
C9_Witness ==
    /\ Settled /\ call.op = "save" /\ config.syncWritesImmediately
    /\ call.out.ok
    /\ Len(config.secondaryLayers) = 2
    /\ call.arg.statusIcon = Undefined
    /\ call.out.val.statusIcon = "Good"
    /\ \A i \in SecondaryEvents :
          call.log[i].op = "settled" => call.log[i].out.ok
    /\ \A l \in Configured :
          FileSystemLayer_get(dirs[l], call.arg.weekId) = Ok(call.out.val)

\* C10: save/delete use the primary layer first; when the primary operation
\* fails, no secondary operation is started, no directory changes, and the
\* call fails with the primary's error, also with fallbackOnError.
C10_PrimaryFirst ==
    [][(call.pc = "idle" /\ call'.pc # "idle" /\ call'.op \in WriteOps) =>
          /\ call'.log[1].layer = Primary
          /\ ~call'.log[1].out.ok =>
                /\ tasks' = tasks
                /\ dirs' = dirs
                /\ idb' = idb
                /\ call'.pc = "done"
                /\ call'.out = call'.log[1].out
                /\ Len(call'.log) = 1]_vars

\* a failed save with fallbackOnError and two secondary layers configured
C10_Witness ==
    /\ Settled /\ call.op = "save" /\ config.fallbackOnError
    /\ ~call.out.ok
    /\ call.out.err = LayerError(Primary, "save")
    /\ Len(config.secondaryLayers) = 2
    /\ Len(call.log) = 1

CoordinatorEvents == {i \in DOMAIN call.log : call.log[i].layer = Coordinator}

\* C11: with a sync coordinator configured, a get whose primary read
\* succeeded calls syncItem with the key exactly once and resolves with the
\* primary's result without waiting for syncItem, also when the call of
\* syncItem throws.
C11_SyncNeverFailsGet ==
    (Active /\ call.op = "get" /\ config.syncCoordinator /\ call.log[1].out.ok) =>
        /\ Cardinality(CoordinatorEvents) = 1
        /\ \A i \in CoordinatorEvents :
              call.log[i].op = "syncItem" /\ call.log[i].arg = call.arg
        /\ Settled
        /\ call.out = call.log[1].out

\* whether the secondary read logged at i succeeded with something: a record
\* for get, a non-empty array or set for the other reads
Yields(i) ==
    call.log[i].out.ok /\ call.log[i].out.val # ExpectedEmpty(call.op)

\* C12: in a fallback the secondary layers are read one after the other in
\* descending priority, whatever their order in the configuration; a layer
\* is read only after every configured secondary layer of higher priority
\* has been read and failed or yielded nothing; and the read returns what
\* the highest-priority layer that yielded something returned.
C12_FallbackInPriorityOrder ==
    (Active /\ call.op \in ReadOps) =>
        /\ \A i, j \in SecondaryEvents :
              i < j => LayerPriority[call.log[i].layer] > LayerPriority[call.log[j].layer]
        /\ \A j \in SecondaryEvents : \A l \in Configured :
              LayerPriority[l] > LayerPriority[call.log[j].layer] =>
                 \E i \in SecondaryEvents :
                    i < j /\ call.log[i].layer = l /\ ~Yields(i)
        /\ Settled => \A i \in SecondaryEvents : Yields(i) => call.out = call.log[i].out

\* a get, with the layers configured in ascending priority, that read the
\* higher-priority layer first, found nothing there, and returned the
\* record of the lower-priority layer
C12_Witness ==
    /\ Settled /\ call.op = "get"
    /\ config.secondaryLayers = <<"sec1", "sec2">>
    /\ LayerPriority["sec1"] < LayerPriority["sec2"]
    /\ \E i, j \in SecondaryEvents :
          /\ i < j
          /\ call.log[i].layer = "sec2" /\ call.log[i].out = Ok(Null)
          /\ call.log[j].layer = "sec1" /\ Yields(j)
          /\ call.out = call.log[j].out

RangeOps == {"getRange", "getByYear", "getWeeksWithData"}

\* what secondary layer l would answer to the read of the call
SecondaryAnswer(l) ==
    CHOOSE out \in SecondaryReads(l, call.op, call.arg) : out.ok

\* whether the fallback read secondary layer l and the read failed
FailedInFallback(l) ==
    \E i \in SecondaryEvents : call.log[i].layer = l /\ ~call.log[i].out.ok

\* C13: a fallback of getRange, getByYear or getWeeksWithData passes over a
\* secondary layer that succeeds with an empty result, so that the read
\* returns an empty result only when no configured secondary layer that can
\* be read has a non-empty one.
C13_EmptyResultsPassedOver ==
    (Settled /\ call.op \in RangeOps /\ SecondaryEvents # {}
        /\ call.out = Ok(ExpectedEmpty(call.op))) =>
        \A l \in Configured :
           FailedInFallback(l) \/ SecondaryAnswer(l).val = ExpectedEmpty(call.op)

StoredRecords ==
    {LayerGet(layerOp.layer, k).val : k \in QueryKeys} \ {Null}

KeyLt(a, b) == KeyLeq(a, b) /\ a # b

Between(k, start, end) == KeyLeq(start, k) /\ KeyLeq(k, end)

\* C15: on each layer, getRange(start, end) returns exactly the stored
\* records whose (year, week) lies between start and end inclusive in the
\* (year, week) lexicographic order, strictly ascending in that order.
C15_GetRangeExactAndSorted ==
    layerOp.op = "getRange" =>
        /\ layerOp.out.ok
        /\ LET items == layerOp.out.val.items
           IN /\ {items[i] : i \in DOMAIN items} =
                    {r \in StoredRecords :
                        Between(r.weekId, layerOp.arg.start, layerOp.arg.end)}
              /\ \A i, j \in DOMAIN items :
                    i < j => KeyLt(items[i].weekId, items[j].weekId)

\* the part of C15 that the code satisfies: the same for the ranges whose
\* end is not before their start
C15_ProperRanges ==
    (layerOp.op = "getRange" /\ KeyLeq(layerOp.arg.start, layerOp.arg.end)) =>
        C15_GetRangeExactAndSorted

\* C16: on each layer, getRange(start, end) with end before start in the
\* (year, week) order resolves to the empty array and does not fail.
C16_InvertedRangeIsEmpty ==
    (layerOp.op = "getRange" /\ ~KeyLeq(layerOp.arg.start, layerOp.arg.end)) =>
        layerOp.out = Ok(List(<<>>))

\* getRange of the layer under test on its present contents
LayerGetRange(layer, start, end) ==
    IF layer = "indexeddb" THEN IndexedDBLayer_getRange(idb, start, end)
    ELSE FileSystemLayer_getRange(dirs["sec1"], start, end)

\* C17: on each layer, whatever week numbers were saved, getByYear(Y)
\* returns the same records in the same order as
\* getRange({Y, 1}, {Y, 53}) on that layer.
C17_GetByYearIsRangeOfYear ==
    layerOp.op = "getByYear" =>
        layerOp.out = LayerGetRange(layerOp.layer, WeekId(layerOp.arg.year, 1),
                                    WeekId(layerOp.arg.year, 53))

\* C18: on each layer, after any awaited saves and deletes,
\* getWeeksWithData(Y) is exactly the set of the week numbers w for which
\* get({Y, w}) returns a record; a week stored only under another year is
\* not in it.
C18_WeeksWithDataMatchesGet ==
    layerOp.op = "getWeeksWithData" =>
        layerOp.out =
            Ok(WeekSet({w \in WeekNumbers :
                          LayerGet(layerOp.layer,
                                   WeekId(layerOp.arg.year, w)).val # Null}))

\* getWeeksWithData(2024) = {2, 54} while week 1 is stored under 2025 only
C18_Witness ==
    /\ layerOp.op = "getWeeksWithData"
    /\ layerOp.arg.year = 2024
    /\ layerOp.out = Ok(WeekSet({2, 54}))
    /\ LayerGet(layerOp.layer, WeekId(2025, 1)).val # Null
    /\ LayerGet(layerOp.layer, WeekId(2024, 1)).val = Null

\* whether the last repository write of key k was a delete that succeeded:
\* every write so far succeeded in the primary layer, and the last one of k
\* left no record
DeletedLast(k) ==
    /\ ~primaryFailed
    /\ nCalls > 0
    /\ k \in WriteKeys
    /\ lastWrite[k] = Null

\* C19, for the repository: a delete whose primary operation did not fail
\* succeeds and leaves no record under the key in the primary layer, also
\* when the key was absent; and after a successful delete of a key, a get
\* of it returns null until the key is saved again.
C19_DeleteThenGetIsNull ==
    /\ (Settled /\ call.op = "delete" /\ call.log[1].out.ok) =>
          /\ call.out = Ok(Void)
          /\ IndexedDBLayer_get(idb, call.arg) = Ok(Null)
    /\ (Settled /\ call.op = "get" /\ DeletedLast(call.arg)) =>
          call.out = Ok(Null)

\* the part of C19 about the layers used directly, which the code satisfies:
\* a delete succeeds, get of the key returns null after it, a delete of an
\* absent key changes nothing, and an absent key stays absent under every
\* operation but a save of it.
C19_LayerDeleteIdempotent ==
    [][/\ layerOp'.op = "delete" =>
             /\ layerOp'.out = Ok(Void)
             /\ IndexedDBLayer_get(idb', layerOp'.arg) = Ok(Null)
             /\ FileSystemLayer_get(dirs'["sec1"], layerOp'.arg) = Ok(Null)
             /\ layerOp'.prior = Null => (idb' = idb /\ dirs' = dirs)
       /\ \A k \in QueryKeys :
             (LayerGet(layerOp.layer, k) = Ok(Null)
                /\ ~(layerOp'.op = "save" /\ layerOp'.arg.weekId = k)) =>
                   /\ IndexedDBLayer_get(idb', k) = Ok(Null)
                   /\ FileSystemLayer_get(dirs'["sec1"], k) = Ok(Null)]_vars

\* whether the directory has an entry work-journal-<year>.json
FileExists(dir, year) == dir[getFileName(year)] # NoFile

\* the weeks of the year under which get finds a record
WeeksStored(dir, year) ==
    {w \in WeekNumbers : FileSystemLayer_get(dir, WeekId(year, w)).val # Null}

\* C20: in FileSystemLayer, after every awaited save or delete, the file of
\* a year exists exactly when a week of that year is stored: a save leaves
\* the file of its year in place, with the record; a delete of the last week
\* of a year removes the file; a delete of one of several weeks keeps the
\* file, and get returns for every other key what it returned before.
C20_YearFileExistsIffWeekStored ==
    [][layerOp'.layer = "filesystem" =>
          LET dir == dirs["sec1"]
              after == dirs'["sec1"]
              op == layerOp'
          IN /\ \A y \in Years : FileExists(after, y) <=> WeeksStored(after, y) # {}
             /\ op.op = "save" =>
                   /\ FileExists(after, op.arg.weekId.year)
                   /\ FileSystemLayer_get(after, op.arg.weekId) = op.out
             /\ op.op = "delete" =>
                   /\ FileExists(after, op.arg.year) <=>
                         WeeksStored(dir, op.arg.year) \ {op.arg.week} # {}
                   /\ \A k \in QueryKeys \ {op.arg} :
                         FileSystemLayer_get(after, k) = FileSystemLayer_get(dir, k)]_vars

\* the delete of the only week stored under 2025 has removed that year's
\* file, while the file of 2024 is left with its two weeks
C20_Witness ==
    /\ layerOp.layer = "filesystem"
    /\ layerOp.op = "delete"
    /\ layerOp.arg = WeekId(2025, 1)
    /\ layerOp.prior # Null
    /\ ~FileExists(dirs["sec1"], 2025)
    /\ FileExists(dirs["sec1"], 2024)
    /\ WeeksStored(dirs["sec1"], 2024) = {1, 54}

\* the year an operation of the file-system layer reads
YearRead(op) ==
    IF op.op = "save" THEN op.arg.weekId.year ELSE op.arg.year

FileContent(year) == dirs["sec1"][getFileName(year)]

\* C21: in the file-system layer a missing year file reads as no data (get
\* null, getByYear the empty list, getWeeksWithData the empty set, delete
\* does nothing), whereas a year file whose text is not JSON makes get,
\* getByYear, getWeeksWithData, save, delete and a getRange covering its
\* year fail, and a failed save or delete leaves the directory unchanged.
C21_MissingIsEmptyMalformedFails ==
    [][LET op == layerOp'
       IN /\ op.op \in {"get", "getByYear", "getWeeksWithData", "delete"}
             /\ FileContent(YearRead(op)) = NoFile
             => /\ op.out = (CASE op.op = "get" -> Ok(Null)
                               [] op.op = "getByYear" -> Ok(List(<<>>))
                               [] op.op = "getWeeksWithData" -> Ok(WeekSet({}))
                               [] op.op = "delete" -> Ok(Void))
                /\ dirs' = dirs
          /\ op.op \in {"get", "getByYear", "getWeeksWithData", "save", "delete"}
             /\ FileContent(YearRead(op)) = Malformed
             => ~op.out.ok /\ dirs' = dirs
          /\ op.op = "getRange"
             /\ (\E y \in Years : /\ FileContent(y) = Malformed
                                   /\ op.arg.start.year <= y
                                   /\ y <= op.arg.end.year)
             => ~op.out.ok]_vars

\* a save has failed on a malformed year file while the file of the other
\* year holds a record
C21_Witness ==
    /\ layerOp.op = "save" /\ ~layerOp.out.ok
    /\ FileContent(layerOp.arg.weekId.year) = Malformed
    /\ \E y \in Years : FileContent(y) \notin {NoFile, Malformed}

\* the operations of a layer awaiting its initialization, and the run each awaits
SharesInit(l, runs) ==
    /\ \A k \in DOMAIN l.ops : runs[l.ops[k].init].epoch = l.ops[k].epoch
    /\ \A i, j \in DOMAIN runs : i # j => runs[i].epoch # runs[j].epoch
    /\ \A i \in DOMAIN runs : runs[i].loads <= 1 /\ runs[i].picks <= 1

\* C22: for both layers the operations started between two explicit resets
\* (FileSystemLayer.reset() or setDirectoryHandle(), a resolved
\* IndexedDBLayer.close()) all await one and the same initialization, which
\* was started after the earlier reset: there is at most one initialization
\* between two resets however many operations are started, and each calls
\* loadDirectoryHandle, showDirectoryPicker and indexedDB.open at most once.
C22_InitializationIsShared ==
    /\ SharesInit(fsLayer, fsLayer.inits)
    /\ SharesInit(idbLayer, idbLayer.opens)
    /\ Len(fsLayer.inits) <= 1 + fsLayer.resets
    /\ Len(idbLayer.opens) <= 1 + idbLayer.closes

\* after a reset two operations await the same second initialization, which
\* has called the picker
C22_Witness ==
    /\ fsLayer.resets = 1 /\ Len(fsLayer.ops) = 2
    /\ fsLayer.ops[1].init = 2 /\ fsLayer.ops[2].init = 2
    /\ fsLayer.inits[2].picks = 1

\* the database was opened again by the operation that followed a close()
C22_WitnessClose ==
    /\ idbLayer.closes = 1 /\ Len(idbLayer.opens) = 2
    /\ Len(idbLayer.ops) = 2 /\ idbLayer.opens[2].pc = "fulfilled"

\* C23: isAvailable() of FileSystemLayer returns true exactly when the
\* platform has the directory API, the layer has a directory and the
\* readwrite permission of that directory is 'granted' at the time of the call.
C23_AvailableOnlyWhenGranted ==
    layerOp.op = "isAvailable"
    => (layerOp.out.val <=> /\ layerOp.arg.api
                            /\ layerOp.arg.directoryHandle # Null
                            /\ layerOp.arg.permission = "granted")

\* with a directory handle isAvailable() is as claimed
C23_WithHandle ==
    layerOp.op = "isAvailable" /\ layerOp.arg.directoryHandle # Null
    => (layerOp.out.val <=> layerOp.arg.api /\ layerOp.arg.permission = "granted")

Failed(promise, runs) == promise # 0 /\ runs[promise].pc = "rejected"

\* an operation of the current epoch settles in this step
Settles(l, lNext, epoch) ==
    /\ Len(lNext.ops) < Len(l.ops)
    /\ layerOp'.op = "operation" /\ layerOp'.arg.epoch = epoch

\* C29: a failed lazy initialization is memoized. While the initialization
\* the layer holds has rejected and neither reset() nor setDirectoryHandle()
\* is called, no step starts another initialization or makes the layer
\* ready, and every operation that settles rejects with the error of that
\* initialization; for IndexedDBLayer no step at all ends this.
C29_InitFailureIsMemoized ==
    [][/\ Failed(fsLayer.initPromise, fsLayer.inits)
          /\ fsLayer'.resets = fsLayer.resets
          => /\ fsLayer'.initPromise = fsLayer.initPromise
             /\ Len(fsLayer'.inits) = Len(fsLayer.inits)
             /\ Failed(fsLayer'.initPromise, fsLayer'.inits)
             /\ Settles(fsLayer, fsLayer', fsLayer.resets)
                => layerOp'.out = Fail(fsLayer.inits[fsLayer.initPromise].err)
       /\ Failed(idbLayer.dbPromise, idbLayer.opens)
          => /\ idbLayer'.dbPromise = idbLayer.dbPromise
             /\ Len(idbLayer'.opens) = Len(idbLayer.opens)
             /\ Failed(idbLayer'.dbPromise, idbLayer'.opens)
             /\ Settles(idbLayer, idbLayer', idbLayer.closes)
                => layerOp'.out = Fail(idbLayer.opens[idbLayer.dbPromise].err)]_vars

\* an operation has failed with the memoized permission error of the
\* layer's initialization while another one awaits the same initialization
C29_Witness ==
    /\ Failed(fsLayer.initPromise, fsLayer.inits)
    /\ fsLayer.inits[fsLayer.initPromise].err.message
          = "Write permission denied for directory"
    /\ layerOp.op = "operation"
    /\ layerOp.out = Fail(fsLayer.inits[fsLayer.initPromise].err)
    /\ Len(fsLayer.ops) = 1 /\ fsLayer.ops[1].init = fsLayer.initPromise

\* close() has rejected on the failed open and an operation has failed with
\* the same error afterwards
C29_WitnessClose ==
    /\ Failed(idbLayer.dbPromise, idbLayer.opens)
    /\ idbLayer.closing = <<>> /\ idbLayer.closes = 0
    /\ layerOp.op = "operation"
    /\ layerOp.out = Fail(idbLayer.opens[idbLayer.dbPromise].err)

\* C24: when saves of the primary layer overlap, the record stored under a
\* key is at any time the record written by the save to that key whose put
\* completed last, which is the record that save returned.
C24_LastCompletedWriteIsStored ==
    \A k \in Keys :
        lastWrite[k] # Null => IndexedDBLayer_get(idb, k).val = lastWrite[k]

\* two saves to one key have both completed, and the one that wrote last had
\* read the key before the other one wrote it
C24_Witness ==
    /\ nCalls = 2 /\ tasks = <<>> /\ Cardinality(idb) = 1
    /\ layerOp.op = "save" /\ layerOp.prior = Null
    /\ lastWrite[layerOp.arg.weekId] = layerOp.out.val

\* C25: RepositoryFactory.getInstance() returns the instance the factory
\* holds and leaves it in place, and configure() replaces the instance
\* exactly when its config differs from the current one in enableFileSystem,
\* directoryHandle, syncWritesImmediately or fallbackOnError.
C25_ConfigureReplacesOnAnyChange ==
    [][/\ factory'.last.op = "getInstance" /\ factory.instance # 0
          => factory'.last.out = factory.instance
             /\ factory'.instance = factory.instance
       /\ factory'.last.op = "configure" /\ factory.currentConfig # Null
          => (factory'.instance # factory.instance
                <=> factory'.last.config # factory.currentConfig)]_vars

\* what the code does: only enableFileSystem and directoryHandle are compared
C25_ReplacesOnLayerChange ==
    [][/\ factory'.last.op = "getInstance" /\ factory.instance # 0
          => factory'.last.out = factory.instance
             /\ factory'.instance = factory.instance
       /\ factory'.last.op = "configure" /\ factory.currentConfig # Null
          => (factory'.instance # factory.instance
                <=> \/ factory'.last.config.enableFileSystem
                         # factory.currentConfig.enableFileSystem
                    \/ factory'.last.config.directoryHandle
                         # factory.currentConfig.directoryHandle)]_vars

\* C30: in useWeeklyData, once every load has completed and none has failed,
\* data holds what the repository has for the current weekId (its record or
\* null), whichever order the loads completed in.
C30_DataIsOfCurrentWeek ==
    hook.loads = <<>> /\ hook.error = Null
    => hook.data = IndexedDBLayer_get(idb, hook.weekId).val

\* C26: no step of a repository get changes what the primary layer stores
\* under a key to anything but the outcome of the last successful repository
\* save or delete of that key (its record, or nothing after a delete).
C26_GetKeepsLastWrite ==
    [][call'.op = "get"
       => \A k \in Keys :
             IndexedDBLayer_get(idb', k).val # IndexedDBLayer_get(idb, k).val
             => IndexedDBLayer_get(idb', k).val = lastWrite'[k]]_vars

\* what a layer holds for every key
SameContents ==
    \A k \in Keys :
        FileSystemLayer_get(dirs["sec1"], k).val = IndexedDBLayer_get(idb, k).val

\* C27: with background fan-out to a FileSystemLayer and no layer failure,
\* after saves and deletes each awaited before the next, once no fan-out
\* operation is outstanding the secondary layer holds for every key the
\* record the primary layer holds, or none where it holds none.
C27_BackgroundConvergence ==
    ~primaryFailed /\ tasks = <<>> => SameContents

\* C28: the repository routes by the capability flags of its secondary
\* layers: a fallback read goes only to a layer whose canRead is true, and a
\* save or delete is fanned out only to a layer whose canWrite is true.
C28_RoutesByCapability ==
    /\ \A i \in SecondaryEvents :
          call.op \in ReadOps => config.capabilities[call.log[i].layer].canRead
    /\ \A i \in DOMAIN tasks : config.capabilities[tasks[i].layer].canWrite

====
